---------------------------- MODULE Spec2Model ----------------------------
(***************************************************************************)
(* AlphaPente: the Pente game-state engines (bit-board GameState with      *)
(* MoveDelta undo, array-based Pente with cached legal moves), the         *)
(* heuristic MCTS that searches Pente, and the PUCT MCTS tree.             *)
(*                                                                         *)
(* Cells are pairs <<row, col>>.  Players are 1 and -1; 0 is an empty cell *)
(* and also stands for Python's None where a winner is reported.           *)
(***************************************************************************)
EXTENDS Integers, Sequences, FiniteSets, TLC

VARIABLES
    gs,        \* the GameState object (python_archive/src/core/game_state.py)
    saved,     \* driver's stack: the GameState as it was before each make_move
    pente,     \* the Pente object (src/games/pente.py)
    psaved,    \* driver's stack: the Pente object as it was before each make_move
    pphase,    \* "play" while the driver makes moves, "unwind" once it undoes them
    sgame,     \* the Pente object a caller hands to MCTS.search (src/mcts/mcts.py)
    sgame0,    \* the caller's copy of that object, taken before the call
    search,    \* the running MCTS.search call: position, budget, tree, return value
    puct,      \* the running PUCT MCTS.run call (src/mcts.py): settings, phase, tree
    gcall,     \* the last GameState / Pente call of an API client and its outcome
    bitboard,  \* a BitBoard object used on its own (v3/src/core/bitboard.py)
    rings,     \* a DistanceRings object and the last query made on it
    movegen,   \* the last MoveGenerator call on gs (src/core/move_generator.py)
    ringcache, \* the module global _global_distance_rings and the objects built
    controller,  \* a GameController session and the requests running on it
    humanplayer, \* a HumanPlayer and the threads calling get_move / submit_move
    stored,      \* the records store_moves wrote for a finished self-play game
    dbwriter     \* the queue, the workers and the database_writer of parallel.py

vars == <<gs, saved, pente, psaved, pphase, sgame, sgame0, search, puct, gcall,
          bitboard, rings, movegen, ringcache,
                   controller, humanplayer, stored, dbwriter>>

\* value of the variables of the components a specification leaves out
NotUsed == "not used"

(***************************************************************************)
(* Bounds of the exploration.                                              *)
(***************************************************************************)
MaxPlies == 2            \* moves the driver makes on top of a start position

(***************************************************************************)
(* Small helpers.                                                          *)
(***************************************************************************)
Abs(x) == IF x < 0 THEN -x ELSE x

Max2(a, b) == IF a >= b THEN a ELSE b

Min2(a, b) == IF a <= b THEN a ELSE b

Range(s) == {s[i] : i \in 1..Len(s)}

\* range(n) x range(n) in row-major order, as the nested for loops visit it
RowMajor(n) == [i \in 1..(n * n) |-> <<(i - 1) \div n, (i - 1) % n>>]

Players == {1, -1}

(***************************************************************************)
(* BitBoard (v3/src/core/bitboard.py).  A Python int used as a bit vector  *)
(* is modelled by the set of its set bit positions; the two lists of six   *)
(* words are functions on 0..5.                                            *)
(***************************************************************************)
BitBoardSide == 19

WordBits == 64

NumChunks == 6

BitBoard_new ==
    [player1_bits |-> [k \in 0..(NumChunks - 1) |-> {}],
     player2_bits |-> [k \in 0..(NumChunks - 1) |-> {}]]

pos_to_bit_index(row, col) ==
    LET bit_index == row * BitBoardSide + col
    IN  <<bit_index \div WordBits, bit_index % WordBits>>

BitBoard_in_range(row, col) ==
    0 <= row /\ row < BitBoardSide /\ 0 <= col /\ col < BitBoardSide

\* mutant: the player's bit is set without clearing the other vector
set_stone_no_clear(b, row, col, player) ==
    LET ix == pos_to_bit_index(row, col)
    IN  IF player = 1
        THEN [b EXCEPT !.player1_bits[ix[1]] = @ \cup {ix[2]}]
        ELSE [b EXCEPT !.player2_bits[ix[1]] = @ \cup {ix[2]}]

\* set_stone: clear the bit in both vectors, then set the player's bit.
\* (The ValueError paths are guarded by the callers with BitBoard_in_range.)
set_stone(b, row, col, player) ==
    LET ix == pos_to_bit_index(row, col)
        c1 == [b.player1_bits EXCEPT ![ix[1]] = @ \ {ix[2]}]
        c2 == [b.player2_bits EXCEPT ![ix[1]] = @ \ {ix[2]}]
    IN  IF player = 1
        THEN [player1_bits |-> [c1 EXCEPT ![ix[1]] = @ \cup {ix[2]}],
              player2_bits |-> c2]
        ELSE [player1_bits |-> c1,
              player2_bits |-> [c2 EXCEPT ![ix[1]] = @ \cup {ix[2]}]]

remove_stone(b, row, col) ==
    LET ix == pos_to_bit_index(row, col)
    IN  [player1_bits |-> [b.player1_bits EXCEPT ![ix[1]] = @ \ {ix[2]}],
         player2_bits |-> [b.player2_bits EXCEPT ![ix[1]] = @ \ {ix[2]}]]

get_stone(b, row, col) ==
    LET ix == pos_to_bit_index(row, col)
    IN  IF ix[2] \in b.player1_bits[ix[1]] THEN 1
        ELSE IF ix[2] \in b.player2_bits[ix[1]] THEN -1
        ELSE 0

is_empty(b, row, col) == get_stone(b, row, col) = 0

(***************************************************************************)
(* MoveDelta (v2/src/core/move_delta.py).                                  *)
(***************************************************************************)
MoveDelta(position, player, captured_positions, captured_player, capture_count) ==
    [position |-> position, player |-> player,
     captured_positions |-> captured_positions,
     captured_player |-> captured_player,
     capture_count |-> capture_count]

has_captures(delta) == Len(delta.captured_positions) > 0

(***************************************************************************)
(* GameState (python_archive/src/core/game_state.py).                      *)
(***************************************************************************)
GameState_new(board_size, captures_to_win, tournament_rule) ==
    [board_size |-> board_size,
     captures_to_win |-> captures_to_win,
     tournament_rule |-> tournament_rule,
     board |-> BitBoard_new,
     current_player |-> 1,
     move_history |-> <<>>,
     captures |-> [p \in Players |-> 0],
     move_count |-> 0]

OnBoard(n, r, c) == 0 <= r /\ r < n /\ 0 <= c /\ c < n

\* the 8 directions in the order _check_captures lists them
CaptureDirections ==
    << <<0, 1>>, <<1, 0>>, <<1, 1>>, <<1, -1>>,
       <<0, -1>>, <<-1, 0>>, <<-1, -1>>, <<-1, 1>> >>

\* mutant: the closing stone of X,O,O,X is not checked
GameState_capture_dir_open(g, st, row, col, player, d) ==
    LET n  == g.board_size
        r1 == row + d[1]       c1 == col + d[2]
        r2 == r1 + d[1]        c2 == c1 + d[2]
        hit == /\ OnBoard(n, r1, c1) /\ get_stone(st.board, r1, c1) = -player
               /\ OnBoard(n, r2, c2) /\ get_stone(st.board, r2, c2) = -player
    IN  IF hit
        THEN [board |-> remove_stone(remove_stone(st.board, r1, c1), r2, c2),
              captured |-> st.captured \o << <<r1, c1>>, <<r2, c2>> >>]
        ELSE st

\* One iteration of the for loop of _check_captures: st = [board, captured].
GameState_capture_dir(g, st, row, col, player, d) ==
    LET n  == g.board_size
        r1 == row + d[1]       c1 == col + d[2]
        r2 == r1 + d[1]        c2 == c1 + d[2]
        r3 == r2 + d[1]        c3 == c2 + d[2]
        hit == /\ OnBoard(n, r1, c1) /\ get_stone(st.board, r1, c1) = -player
               /\ OnBoard(n, r2, c2) /\ get_stone(st.board, r2, c2) = -player
               /\ OnBoard(n, r3, c3) /\ get_stone(st.board, r3, c3) = player
    IN  IF hit
        THEN [board |-> remove_stone(remove_stone(st.board, r1, c1), r2, c2),
              captured |-> st.captured \o << <<r1, c1>>, <<r2, c2>> >>]
        ELSE st

RECURSIVE GameState_capture_loop(_, _, _, _, _, _)
GameState_capture_loop(g, st, row, col, player, i) ==
    IF i > Len(CaptureDirections) THEN st
    ELSE GameState_capture_loop(
             g, GameState_capture_dir(g, st, row, col, player, CaptureDirections[i]),
             row, col, player, i + 1)

\* _check_captures: returns [board (stones removed), captured (positions)]
GameState_check_captures(g, board, row, col, player) ==
    GameState_capture_loop(g, [board |-> board, captured |-> <<>>], row, col, player, 1)

\* mutant: make_move without the occupied-cell test
GameState_make_move_overwrites(g, position) ==
    LET row == position[1]
        col == position[2]
    IN  IF ~BitBoard_in_range(row, col)
        THEN [err |-> "invalid position", gs |-> g, delta |-> <<>>]
        ELSE [err |-> "",
              delta |-> MoveDelta(position, g.current_player, <<>>, 0, 0),
              gs |-> [g EXCEPT
                        !.board = set_stone(@, row, col, g.current_player),
                        !.move_history = Append(@, MoveDelta(position,
                                                   g.current_player, <<>>, 0, 0)),
                        !.move_count = @ + 1,
                        !.current_player = -@]]

\* make_move: [err, gs, delta]; err is "" on success.
GameState_make_move(g, position) ==
    LET row == position[1]
        col == position[2]
    IN  IF ~BitBoard_in_range(row, col)
        THEN [err |-> "invalid position", gs |-> g, delta |-> <<>>]
        ELSE IF ~is_empty(g.board, row, col)
        THEN [err |-> "occupied", gs |-> g, delta |-> <<>>]
        ELSE
          LET placed == set_stone(g.board, row, col, g.current_player)
              chk    == GameState_check_captures(g, placed, row, col, g.current_player)
              captured_positions == chk.captured
              captured_player == IF Len(captured_positions) > 0
                                 THEN -g.current_player ELSE 0
              capture_count == Len(captured_positions) \div 2
              delta == MoveDelta(position, g.current_player, captured_positions,
                                 captured_player, capture_count)
          IN  [err |-> "",
               delta |-> delta,
               gs |-> [g EXCEPT
                         !.board = chk.board,
                         !.captures = IF capture_count > 0
                                      THEN [@ EXCEPT ![g.current_player] = @ + capture_count]
                                      ELSE @,
                         !.move_history = Append(@, delta),
                         !.move_count = @ + 1,
                         !.current_player = -@]]

RECURSIVE restore_stones(_, _, _, _)
restore_stones(b, positions, player, i) ==
    IF i > Len(positions) THEN b
    ELSE restore_stones(set_stone(b, positions[i][1], positions[i][2], player),
                        positions, player, i + 1)

\* mutant: the capture count is not given back
GameState_undo_move_keeps_captures(g) ==
    IF g.move_history = <<>>
    THEN [delta |-> <<>>, gs |-> g]
    ELSE
      LET n     == Len(g.move_history)
          delta == g.move_history[n]
          b1    == remove_stone(g.board, delta.position[1], delta.position[2])
      IN  [delta |-> delta,
           gs |-> [g EXCEPT
                     !.move_history = SubSeq(@, 1, n - 1),
                     !.current_player = delta.player,
                     !.move_count = @ - 1,
                     !.board = IF has_captures(delta)
                               THEN restore_stones(b1, delta.captured_positions,
                                                   delta.captured_player, 1)
                               ELSE b1]]

\* mutant: the empty-history test is missing and the bookkeeping runs
GameState_undo_move_unguarded(g) ==
    IF g.move_history = <<>>
    THEN [delta |-> <<>>,
          gs |-> [g EXCEPT !.current_player = -@, !.move_count = @ - 1]]
    ELSE GameState_undo_move_keeps_captures(g)

\* undo_move: [delta, gs]; delta is <<>> for Python's None.
GameState_undo_move(g) ==
    IF g.move_history = <<>>
    THEN [delta |-> <<>>, gs |-> g]
    ELSE
      LET n     == Len(g.move_history)
          delta == g.move_history[n]
          b1    == remove_stone(g.board, delta.position[1], delta.position[2])
      IN  [delta |-> delta,
           gs |-> [g EXCEPT
                     !.move_history = SubSeq(@, 1, n - 1),
                     !.current_player = delta.player,
                     !.move_count = @ - 1,
                     !.board = IF has_captures(delta)
                               THEN restore_stones(b1, delta.captured_positions,
                                                   delta.captured_player, 1)
                               ELSE b1,
                     !.captures = IF has_captures(delta)
                                  THEN [@ EXCEPT ![delta.player] = @ - delta.capture_count]
                                  ELSE @]]

\* mutant: the tournament ring starts one cell too close to the center
GameState_get_legal_moves_near(g) ==
    LET center == g.board_size \div 2
        Empty(p) == is_empty(g.board, p[1], p[2])
        Far(p)   == Empty(p) /\ Max2(Abs(p[1] - center), Abs(p[2] - center)) >= 2
    IN  IF g.tournament_rule /\ g.move_count = 1 /\ g.current_player = -1
        THEN SelectSeq(RowMajor(g.board_size), Far)
        ELSE SelectSeq(RowMajor(g.board_size), Empty)

\* get_legal_moves: the list, in the order the loops build it
GameState_get_legal_moves(g) ==
    LET center == g.board_size \div 2
        Empty(p) == is_empty(g.board, p[1], p[2])
        Far(p)   == Empty(p) /\ Max2(Abs(p[1] - center), Abs(p[2] - center)) >= 3
    IN  IF g.tournament_rule /\ g.move_count = 1 /\ g.current_player = -1
        THEN SelectSeq(RowMajor(g.board_size), Far)
        ELSE SelectSeq(RowMajor(g.board_size), Empty)

RECURSIVE GameState_run(_, _, _, _, _)
\* the while loops of _count_line: stones of player from (r, c) stepping by (dr, dc)
GameState_run(g, r, c, d, player) ==
    IF OnBoard(g.board_size, r, c) /\ get_stone(g.board, r, c) = player
    THEN 1 + GameState_run(g, r + d[1], c + d[2], d, player)
    ELSE 0

GameState_count_line(g, start_row, start_col, dr, dc, player) ==
    1 + GameState_run(g, start_row + dr, start_col + dc, <<dr, dc>>, player)
      + GameState_run(g, start_row - dr, start_col - dc, <<-dr, -dc>>, player)

LineDirections == << <<0, 1>>, <<1, 0>>, <<1, 1>>, <<1, -1>> >>

\* mutant: a line of four already counts
GameState_check_five_in_row_four(g) ==
    LET Hit(p) ==
            LET stone == get_stone(g.board, p[1], p[2])
            IN  /\ stone # 0
                /\ \E i \in 1..Len(LineDirections) :
                      GameState_count_line(g, p[1], p[2], LineDirections[i][1],
                                           LineDirections[i][2], stone) >= 4
        hits == SelectSeq(RowMajor(g.board_size), Hit)
    IN  IF hits = <<>> THEN 0 ELSE get_stone(g.board, hits[1][1], hits[1][2])

\* _check_five_in_row: the stone of the first cell (row-major) on a line of >= 5
GameState_check_five_in_row(g) ==
    LET Hit(p) ==
            LET stone == get_stone(g.board, p[1], p[2])
            IN  /\ stone # 0
                /\ \E i \in 1..Len(LineDirections) :
                      GameState_count_line(g, p[1], p[2], LineDirections[i][1],
                                           LineDirections[i][2], stone) >= 5
        hits == SelectSeq(RowMajor(g.board_size), Hit)
    IN  IF hits = <<>> THEN 0 ELSE get_stone(g.board, hits[1][1], hits[1][2])

GameState_get_winner(g) ==
    IF g.captures[1] >= g.captures_to_win THEN 1
    ELSE IF g.captures[-1] >= g.captures_to_win THEN -1
    ELSE GameState_check_five_in_row(g)

GameState_is_terminal(g) ==
    GameState_get_winner(g) # 0 \/ Len(GameState_get_legal_moves(g)) = 0

(***************************************************************************)
(* Start positions of the GameState exploration: each is a configuration   *)
(* of the constructor and a sequence of make_move calls replayed from the  *)
(* fresh object, so every start position is one the program reaches.       *)
(***************************************************************************)
RECURSIVE GameState_replay(_, _, _)
GameState_replay(g, moves, i) ==
    IF i > Len(moves) THEN g
    ELSE GameState_replay(GameState_make_move(g, moves[i]).gs, moves, i + 1)

GameStateStarts ==
    { \* empty boards, tournament rule on and off
      [board_size |-> 7, captures_to_win |-> 5, tournament_rule |-> TRUE,
       moves |-> <<>>],
      [board_size |-> 5, captures_to_win |-> 5, tournament_rule |-> FALSE,
       moves |-> <<>>],
      \* X . . X with O O about to be completed: X at (0,3) captures
      [board_size |-> 5, captures_to_win |-> 1, tournament_rule |-> FALSE,
       moves |-> << <<0, 0>>, <<0, 1>>, <<4, 4>>, <<0, 2>> >>],
      \* X at (0,0) captures along the row and along the column at once
      [board_size |-> 5, captures_to_win |-> 2, tournament_rule |-> FALSE,
       moves |-> << <<0, 3>>, <<0, 1>>, <<3, 0>>, <<0, 2>>,
                    <<4, 4>>, <<1, 0>>, <<4, 3>>, <<2, 0>> >>],
      \* four in a row for X (row 2) and a split four for O (row 0)
      [board_size |-> 5, captures_to_win |-> 5, tournament_rule |-> FALSE,
       moves |-> << <<2, 0>>, <<0, 0>>, <<2, 1>>, <<0, 1>>,
                    <<2, 2>>, <<0, 3>>, <<2, 3>>, <<0, 4>> >>],
      \* four in a column for X
      [board_size |-> 5, captures_to_win |-> 5, tournament_rule |-> FALSE,
       moves |-> << <<0, 2>>, <<0, 0>>, <<1, 2>>, <<4, 0>>,
                    <<2, 2>>, <<0, 4>>, <<3, 2>>, <<4, 4>> >>],
      \* four on the main diagonal for X, four on the anti-diagonal for O
      [board_size |-> 5, captures_to_win |-> 5, tournament_rule |-> FALSE,
       moves |-> << <<0, 0>>, <<0, 4>>, <<1, 1>>, <<1, 3>>,
                    <<3, 3>>, <<3, 1>>, <<4, 4>>, <<4, 0>>, <<0, 2>> >>] }

GameStateInit ==
    /\ \E s \in GameStateStarts :
          gs = GameState_replay(
                   GameState_new(s.board_size, s.captures_to_win, s.tournament_rule),
                   s.moves, 1)
    /\ saved = <<>>
    /\ pente = NotUsed /\ psaved = NotUsed /\ pphase = NotUsed
    /\ sgame = NotUsed /\ sgame0 = NotUsed /\ search = NotUsed
    /\ puct = NotUsed
    /\ gcall = NotUsed /\ bitboard = NotUsed /\ rings = NotUsed
    /\ movegen = NotUsed /\ ringcache = NotUsed
    /\ controller = NotUsed /\ humanplayer = NotUsed
    /\ stored = NotUsed /\ dbwriter = NotUsed

\* what a caller can observe of a GameState
GameState_view(g) ==
    [board |-> [p \in Range(RowMajor(g.board_size)) |-> get_stone(g.board, p[1], p[2])],
     bits |-> g.board,
     current_player |-> g.current_player,
     move_count |-> g.move_count,
     captures |-> g.captures,
     move_history |-> g.move_history]

\* the driver calls make_move on an empty cell of the board
MakeMove ==
    /\ Len(saved) < MaxPlies
    /\ \E p \in Range(RowMajor(gs.board_size)) :
          /\ is_empty(gs.board, p[1], p[2])
          /\ gs' = GameState_make_move(gs, p).gs
          /\ saved' = Append(saved, gs)
    /\ UNCHANGED <<pente, psaved, pphase, sgame, sgame0, search, puct, gcall, bitboard, rings,
                   movegen, ringcache,
                   controller, humanplayer, stored, dbwriter>>

\* the driver undoes a move it made (or calls undo_move on a fresh game)
UndoMove ==
    /\ saved # <<>> \/ gs.move_history = <<>>
    /\ gs' = GameState_undo_move(gs).gs
    /\ saved' = IF saved = <<>> THEN saved ELSE SubSeq(saved, 1, Len(saved) - 1)
    /\ UNCHANGED <<pente, psaved, pphase, sgame, sgame0, search, puct, gcall, bitboard, rings,
                   movegen, ringcache,
                   controller, humanplayer, stored, dbwriter>>

GameStateNext == MakeMove \/ UndoMove

SpecGameState == GameStateInit /\ [][GameStateNext]_vars

(***************************************************************************)
(* Properties of GameState.                                                *)
(***************************************************************************)
RECURSIVE GameState_undo_n(_, _)
GameState_undo_n(g, k) ==
    IF k = 0 THEN g ELSE GameState_undo_n(GameState_undo_move(g).gs, k - 1)

\* C1: after k make_move calls, k undo_move calls restore every board cell,
\* current_player, move_count, the captures map and move_history exactly as
\* they were before the k moves, captures included.
C1_UndoRestoresState ==
    \A k \in 1..Len(saved) :
        GameState_view(GameState_undo_n(gs, k)) = GameState_view(saved[Len(saved) - k + 1])

\* two moves were made, one of them captured, and both can be undone
C1_Witness ==
    /\ Len(saved) = 2
    /\ \E i \in (Len(gs.move_history) - 1)..Len(gs.move_history) :
          has_captures(gs.move_history[i])
    /\ gs.captures # saved[1].captures

\* the directions along which a stone of player at p completes X,O,O,X
CompletedDirections(g, p, player) ==
    {i \in 1..Len(CaptureDirections) :
        LET d == CaptureDirections[i]
        IN  /\ OnBoard(g.board_size, p[1] + 3 * d[1], p[2] + 3 * d[2])
            /\ get_stone(g.board, p[1] + d[1], p[2] + d[2]) = -player
            /\ get_stone(g.board, p[1] + 2 * d[1], p[2] + 2 * d[2]) = -player
            /\ get_stone(g.board, p[1] + 3 * d[1], p[2] + 3 * d[2]) = player}

CapturedCells(g, p, player) ==
    UNION {{<<p[1] + CaptureDirections[i][1], p[2] + CaptureDirections[i][2]>>,
            <<p[1] + 2 * CaptureDirections[i][1], p[2] + 2 * CaptureDirections[i][2]>>} :
           i \in CompletedDirections(g, p, player)}

\* C2: a move by X that completes X,O,O,X removes exactly the two O stones of
\* each completed direction and nothing else, adds 1 to captures[X] per
\* completed direction, and undo_move puts the stones back as O stones and
\* takes the same amount off captures[X].
C2_CaptureExact ==
    saved # <<>> =>
        LET pre    == saved[Len(saved)]
            X      == pre.current_player
            p      == gs.move_history[Len(gs.move_history)].position
            dirs   == CompletedDirections(pre, p, X)
            gone   == CapturedCells(pre, p, X)
            undone == GameState_undo_move(gs).gs
        IN  /\ \A c \in Range(RowMajor(gs.board_size)) :
                  get_stone(gs.board, c[1], c[2]) =
                      IF c = p THEN X
                      ELSE IF c \in gone THEN 0
                      ELSE get_stone(pre.board, c[1], c[2])
            /\ gs.captures[X] = pre.captures[X] + Cardinality(dirs)
            /\ gs.captures[-X] = pre.captures[-X]
            /\ \A c \in gone : get_stone(undone.board, c[1], c[2]) = -X
            /\ undone.captures[X] = gs.captures[X] - Cardinality(dirs)

\* the last move completed X,O,O,X along two directions at once
C2_Witness ==
    /\ saved # <<>>
    /\ Cardinality(CompletedDirections(saved[Len(saved)],
                                       gs.move_history[Len(gs.move_history)].position,
                                       saved[Len(saved)].current_player)) = 2
    /\ gs.captures[saved[Len(saved)].current_player] = 2

\* five consecutive stones of player along a row, a column or a diagonal
HasFive(g, player) ==
    \E r \in 0..(g.board_size - 1) : \E c \in 0..(g.board_size - 1) :
        /\ get_stone(g.board, r, c) = player
        /\ \E i \in 1..Len(LineDirections) :
              \A k \in 1..4 :
                  /\ OnBoard(g.board_size, r + k * LineDirections[i][1],
                             c + k * LineDirections[i][2])
                  /\ get_stone(g.board, r + k * LineDirections[i][1],
                               c + k * LineDirections[i][2]) = player

Wins(g, player) == g.captures[player] >= g.captures_to_win \/ HasFive(g, player)

\* C5: get_winner returns p only if p has captures_to_win captures or five
\* in a row, and returns some winner whenever a player has either; four in a
\* row alone gives None.
C5_WinnerExact ==
    LET w == GameState_get_winner(gs)
    IN  /\ w # 0 => Wins(gs, w)
        /\ (\E p \in Players : Wins(gs, p)) => w # 0

\* a five-in-a-row win on the board, no capture win
C5_Witness ==
    /\ GameState_get_winner(gs) = 1
    /\ HasFive(gs, 1)
    /\ gs.captures[1] < gs.captures_to_win

\* C6: with the tournament rule on and move_count = 1, get_legal_moves is
\* exactly the empty cells at Chebyshev distance >= 3 from the center; in
\* every other state it is exactly the empty cells.
C6_LegalMovesExact ==
    LET moves  == GameState_get_legal_moves(gs)
        center == gs.board_size \div 2
        empties == {c \in Range(RowMajor(gs.board_size)) : get_stone(gs.board, c[1], c[2]) = 0}
    IN  /\ Cardinality(Range(moves)) = Len(moves)
        /\ Range(moves) =
              IF gs.tournament_rule /\ gs.move_count = 1
              THEN {c \in empties :
                       Abs(c[1] - center) >= 3 \/ Abs(c[2] - center) >= 3}
              ELSE empties

\* the second player is to move under the tournament rule and has moves
C6_Witness ==
    /\ gs.tournament_rule
    /\ gs.move_count = 1
    /\ Len(GameState_get_legal_moves(gs)) > 0
    /\ Len(GameState_get_legal_moves(gs)) < gs.board_size * gs.board_size - 1

\* C37: terminal is absorbing: in a state in which get_winner() names a
\* winner make_move places no further stone, so the winner stays.  saved
\* holds the state each make_move of the driver was applied to.
C37_NoMoveAfterWin ==
    \A i \in 1..Len(saved) : GameState_get_winner(saved[i]) = 0

(***************************************************************************)
(* GameState driven by an API client that passes any position to make_move *)
(* and calls undo_move at any time (v3/tests/test_game_state.py            *)
(* test_invalid_move, test_undo_empty_history).  gcall records the last    *)
(* call: the operation, its argument, the error it raised ("" for none),   *)
(* what it returned and the object as it was before the call.              *)
(***************************************************************************)
MaxCalls == 2            \* calls the client makes on one GameState

\* row and column values the client passes: around 0, around board_size and
\* around the 19 of the BitBoard
CallCoords(n) == {-1, 0, 1, n - 1, n, BitBoardSide - 1, BitBoardSide}

GameStateCallStarts ==
    { [board_size |-> 19, captures_to_win |-> 5, tournament_rule |-> TRUE,
       moves |-> <<>>],
      [board_size |-> 4, captures_to_win |-> 5, tournament_rule |-> FALSE,
       moves |-> <<>>],
      \* a board on which no cell is 3 away from the centre
      [board_size |-> 5, captures_to_win |-> 5, tournament_rule |-> TRUE,
       moves |-> <<>>],
      \* X at (0,3) would capture (0,1),(0,2)
      [board_size |-> 5, captures_to_win |-> 1, tournament_rule |-> FALSE,
       moves |-> << <<0, 0>>, <<0, 1>>, <<4, 4>>, <<0, 2>> >>] }

GameStateCallInit ==
    /\ \E s \in GameStateCallStarts :
          gs = GameState_replay(
                   GameState_new(s.board_size, s.captures_to_win, s.tournament_rule),
                   s.moves, 1)
    /\ gcall = [count |-> 0, op |-> "", position |-> <<>>, err |-> "",
                result |-> <<>>, before |-> <<>>]
    /\ saved = NotUsed
    /\ pente = NotUsed /\ psaved = NotUsed /\ pphase = NotUsed
    /\ sgame = NotUsed /\ sgame0 = NotUsed /\ search = NotUsed
    /\ puct = NotUsed /\ bitboard = NotUsed /\ rings = NotUsed
    /\ movegen = NotUsed /\ ringcache = NotUsed
    /\ controller = NotUsed /\ humanplayer = NotUsed
    /\ stored = NotUsed /\ dbwriter = NotUsed

\* game.make_move(position), position any pair of the client's values
CallMakeMove ==
    /\ gcall.count < MaxCalls
    /\ \E row \in CallCoords(gs.board_size), col \in CallCoords(gs.board_size) :
       \E r \in {GameState_make_move(gs, <<row, col>>)} :
          /\ gs' = r.gs
          /\ gcall' = [count |-> gcall.count + 1, op |-> "make_move",
                       position |-> <<row, col>>, err |-> r.err,
                       result |-> r.delta, before |-> gs]
    /\ UNCHANGED <<saved, pente, psaved, pphase, sgame, sgame0, search, puct,
                   bitboard, rings, movegen, ringcache,
                   controller, humanplayer, stored, dbwriter>>

\* game.undo_move()
CallUndoMove ==
    /\ gcall.count < MaxCalls
    /\ \E r \in {GameState_undo_move(gs)} :
          /\ gs' = r.gs
          /\ gcall' = [count |-> gcall.count + 1, op |-> "undo_move",
                       position |-> <<>>, err |-> "",
                       result |-> r.delta, before |-> gs]
    /\ UNCHANGED <<saved, pente, psaved, pphase, sgame, sgame0, search, puct,
                   bitboard, rings, movegen, ringcache,
                   controller, humanplayer, stored, dbwriter>>

GameStateCallNext == CallMakeMove \/ CallUndoMove

SpecGameStateCalls == GameStateCallInit /\ [][GameStateCallNext]_vars

\* the cells of the BitBoard that hold a stone
BitBoard_stones(b) ==
    {p \in (0..(BitBoardSide - 1)) \X (0..(BitBoardSide - 1)) :
        get_stone(b, p[1], p[2]) # 0}

\* C16: GameState.make_move on a non-empty cell raises the occupied-cell
\* error and leaves the board, current_player, move_count, move_history and
\* captures unchanged.
C16_OccupiedCellRejected ==
    (/\ gcall.op = "make_move"
     /\ BitBoard_in_range(gcall.position[1], gcall.position[2])
     /\ ~is_empty(gcall.before.board, gcall.position[1], gcall.position[2]))
        => /\ gcall.err = "occupied"
           /\ gs = gcall.before

\* a second make_move on the cell where the opponent has just played
C16_Witness ==
    /\ gcall.op = "make_move"
    /\ gcall.err = "occupied"
    /\ gcall.before.move_count > 0
    /\ get_stone(gs.board, gcall.position[1], gcall.position[2]) = -gs.current_player
    /\ gs = gcall.before

\* C17: make_move with a row or column outside [0, board_size) fails with
\* the out-of-range error and places no stone, for every configured
\* board_size, those below 19 included.
C17_OutOfRangeRejected ==
    (/\ gcall.op = "make_move"
     /\ ~OnBoard(gcall.before.board_size, gcall.position[1], gcall.position[2]))
        => /\ gcall.err = "invalid position"
           /\ BitBoard_stones(gs.board) = BitBoard_stones(gcall.before.board)
           /\ gs = gcall.before

\* C18: undo_move on a state with empty move history is a no-op: it returns
\* None (<<>> here), raises nothing, and leaves the board, current_player,
\* move_count and captures unchanged.
C18_UndoEmptyHistoryNoOp ==
    (gcall.op = "undo_move" /\ gcall.before.move_history = <<>>)
        => /\ gcall.result = <<>>
           /\ gcall.err = ""
           /\ GameState_view(gs) = GameState_view(gcall.before)
           /\ gs = gcall.before

\* undo_move called on a game in which no move has been made, after a
\* make_move that was refused
C18_Witness ==
    /\ gcall.op = "undo_move"
    /\ gcall.count = 2
    /\ gcall.before.move_history = <<>>
    /\ gcall.before.move_count = 0
    /\ gcall.result = <<>>
    /\ gs = gcall.before

\* C33: a GameState with an empty cell and no winner has a legal move and is
\* not terminal, for every board size and with the tournament rule on or off.
C33_NoEndWithEmptyCells ==
    (/\ GameState_get_winner(gs) = 0
     /\ \E p \in Range(RowMajor(gs.board_size)) : is_empty(gs.board, p[1], p[2]))
        => /\ GameState_get_legal_moves(gs) # <<>>
           /\ ~GameState_is_terminal(gs)

(***************************************************************************)
(* BitBoard used on its own (v3/tests/test_bitboard.py): a client calls    *)
(* set_stone, remove_stone and clear in any order, with positions inside   *)
(* and outside the board and with valid and invalid players.  bitboard     *)
(* holds the object (bits) and a record of the last call.                  *)
(***************************************************************************)
MaxBitBoardCalls == 3    \* calls the client makes on one BitBoard

\* positions the client passes: both sides of the boundary between the first
\* two 64-bit words (bit indices 63 and 64), the corners, and two positions
\* outside the board
BitBoardCallCells ==
    { <<0, 0>>, <<3, 6>>, <<3, 7>>, <<18, 18>>, <<-1, 0>>, <<0, 19>> }

BitBoardCallPlayers == {1, -1, 0}

BitBoard_clear(b) ==
    [player1_bits |-> [k \in 0..(NumChunks - 1) |-> {}],
     player2_bits |-> [k \in 0..(NumChunks - 1) |-> {}]]

BitBoardInit ==
    /\ bitboard = [bits |-> BitBoard_new, count |-> 0, op |-> "",
                   position |-> <<>>, player |-> 0, err |-> "",
                   before |-> BitBoard_new]
    /\ gs = NotUsed /\ saved = NotUsed
    /\ pente = NotUsed /\ psaved = NotUsed /\ pphase = NotUsed
    /\ sgame = NotUsed /\ sgame0 = NotUsed /\ search = NotUsed
    /\ puct = NotUsed /\ gcall = NotUsed /\ rings = NotUsed
    /\ movegen = NotUsed /\ ringcache = NotUsed
    /\ controller = NotUsed /\ humanplayer = NotUsed
    /\ stored = NotUsed /\ dbwriter = NotUsed

\* board.set_stone(row, col, player), with its two ValueError exits
BitBoardSetStone ==
    /\ bitboard.count < MaxBitBoardCalls
    /\ \E p \in BitBoardCallCells, player \in BitBoardCallPlayers :
       LET err == IF ~BitBoard_in_range(p[1], p[2]) THEN "invalid position"
                  ELSE IF player \notin {1, -1} THEN "invalid player"
                  ELSE ""
       IN  bitboard' = [bits |-> IF err = ""
                                 THEN set_stone(bitboard.bits, p[1], p[2], player)
                                 ELSE bitboard.bits,
                        count |-> bitboard.count + 1, op |-> "set_stone",
                        position |-> p, player |-> player, err |-> err,
                        before |-> bitboard.bits]
    /\ UNCHANGED <<gs, saved, pente, psaved, pphase, sgame, sgame0, search, puct,
                   gcall, rings, movegen, ringcache,
                   controller, humanplayer, stored, dbwriter>>

\* board.remove_stone(row, col), with its ValueError exit
BitBoardRemoveStone ==
    /\ bitboard.count < MaxBitBoardCalls
    /\ \E p \in BitBoardCallCells :
       LET err == IF ~BitBoard_in_range(p[1], p[2]) THEN "invalid position"
                  ELSE ""
       IN  bitboard' = [bits |-> IF err = ""
                                 THEN remove_stone(bitboard.bits, p[1], p[2])
                                 ELSE bitboard.bits,
                        count |-> bitboard.count + 1, op |-> "remove_stone",
                        position |-> p, player |-> 0, err |-> err,
                        before |-> bitboard.bits]
    /\ UNCHANGED <<gs, saved, pente, psaved, pphase, sgame, sgame0, search, puct,
                   gcall, rings, movegen, ringcache,
                   controller, humanplayer, stored, dbwriter>>

\* board.clear()
BitBoardClear ==
    /\ bitboard.count < MaxBitBoardCalls
    /\ bitboard' = [bits |-> BitBoard_clear(bitboard.bits),
                    count |-> bitboard.count + 1, op |-> "clear",
                    position |-> <<>>, player |-> 0, err |-> "",
                    before |-> bitboard.bits]
    /\ UNCHANGED <<gs, saved, pente, psaved, pphase, sgame, sgame0, search, puct,
                   gcall, rings, movegen, ringcache,
                   controller, humanplayer, stored, dbwriter>>

BitBoardNext == BitBoardSetStone \/ BitBoardRemoveStone \/ BitBoardClear

SpecBitBoard == BitBoardInit /\ [][BitBoardNext]_vars

\* the bit of cell (row, col) is set in the vector of player
BitSet(b, row, col, player) ==
    LET ix == pos_to_bit_index(row, col)
    IN  ix[2] \in (IF player = 1 THEN b.player1_bits ELSE b.player2_bits)[ix[1]]

\* C19: after any sequence of set_stone, remove_stone and clear calls no cell
\* has its bit set in both players' bit vectors, and set_stone(r, c, p) on a
\* cell held by the other player leaves the cell held by p only.
C19_BitsMutuallyExclusive ==
    /\ \A k \in 0..(NumChunks - 1) :
          bitboard.bits.player1_bits[k] \cap bitboard.bits.player2_bits[k] = {}
    /\ (/\ bitboard.op = "set_stone"
        /\ bitboard.err = ""
        /\ get_stone(bitboard.before, bitboard.position[1], bitboard.position[2])
              = -bitboard.player)
          => /\ BitSet(bitboard.bits, bitboard.position[1], bitboard.position[2],
                       bitboard.player)
             /\ ~BitSet(bitboard.bits, bitboard.position[1], bitboard.position[2],
                        -bitboard.player)
             /\ get_stone(bitboard.bits, bitboard.position[1], bitboard.position[2])
                   = bitboard.player

\* player 1 has just overwritten a stone of player -1 at bit 0 of the second
\* word, after an earlier call
C19_Witness ==
    /\ bitboard.op = "set_stone"
    /\ bitboard.err = ""
    /\ bitboard.count = 3
    /\ bitboard.position = <<3, 7>>
    /\ bitboard.player = 1
    /\ get_stone(bitboard.before, 3, 7) = -1
    /\ get_stone(bitboard.bits, 3, 7) = 1

(***************************************************************************)
(* DistanceRings (v3/src/core/distance_rings.py): for every cell the cells *)
(* at each Chebyshev distance, computed once by the constructor.  A list   *)
(* is a sequence, in the order in which the loops append to it.            *)
(***************************************************************************)
MaxRingSize == 4         \* largest board_size a DistanceRings is built for

encode_position(board_size, row, col) == row * board_size + col

\* the loop over other_col of _precompute_all_distances for the cell
\* (row, col) and one other_row; buckets is rings[position_id]
RECURSIVE precompute_col_loop(_, _, _, _, _, _)
precompute_col_loop(board_size, row, col, other_row, other_col, buckets) ==
    IF other_col >= board_size THEN buckets
    ELSE
      LET distance == Max2(Abs(other_row - row), Abs(other_col - col))
      IN  IF other_row = row /\ other_col = col
          THEN precompute_col_loop(board_size, row, col, other_row, other_col + 1,
                                   buckets)
          ELSE IF distance <= board_size - 1
          THEN CHOOSE done \in
                  {precompute_col_loop(board_size, row, col, other_row,
                                       other_col + 1, appended) :
                      appended \in {[buckets EXCEPT ![distance] =
                                        Append(@, <<other_row, other_col>>)]}} : TRUE
          ELSE precompute_col_loop(board_size, row, col, other_row, other_col + 1,
                                   buckets)

\* the loop over other_row
RECURSIVE precompute_cell(_, _, _, _, _)
precompute_cell(board_size, row, col, other_row, buckets) ==
    IF other_row >= board_size THEN buckets
    ELSE CHOOSE done \in
            {precompute_cell(board_size, row, col, other_row + 1, filled) :
                filled \in {precompute_col_loop(board_size, row, col, other_row, 0,
                                                buckets)}} : TRUE

precompute_all_distances(board_size) ==
    [position_id \in 0..(board_size * board_size - 1) |->
        precompute_cell(board_size, position_id \div board_size,
                        position_id % board_size, 0,
                        [distance \in 1..(board_size - 1) |-> <<>>])]

DistanceRings_new(board_size) ==
    [board_size |-> board_size,
     max_distance |-> board_size - 1,
     rings |-> precompute_all_distances(board_size)]

RECURSIVE RingsUpTo(_, _, _)
RingsUpTo(buckets, distance, last) ==
    IF distance > last THEN <<>>
    ELSE buckets[distance] \o RingsUpTo(buckets, distance + 1, last)

\* mutant: the cells within the distance, as get_positions_within_distance
get_positions_at_distance_within(r, center_row, center_col, distance) ==
    IF ~OnBoard(r.board_size, center_row, center_col) THEN <<>>
    ELSE IF distance < 1 THEN <<>>
    ELSE RingsUpTo(r.rings[encode_position(r.board_size, center_row, center_col)],
                   1, IF distance < r.max_distance THEN distance ELSE r.max_distance)

get_positions_at_distance(r, center_row, center_col, distance) ==
    IF ~OnBoard(r.board_size, center_row, center_col) THEN <<>>
    ELSE IF distance < 1 \/ distance > r.max_distance THEN <<>>
    ELSE r.rings[encode_position(r.board_size, center_row, center_col)][distance]

get_distance(row1, col1, row2, col2) == Max2(Abs(row2 - row1), Abs(col2 - col1))

\* mutant: the seen set is not consulted
RECURSIVE ordered_ring_loop_unseen(_, _, _, _, _)
ordered_ring_loop_unseen(ring, stone_positions_set, distance, k, st) ==
    IF k > Len(ring) THEN st
    ELSE IF ring[k] \notin stone_positions_set
    THEN CHOOSE done \in
            {ordered_ring_loop_unseen(ring, stone_positions_set, distance, k + 1, added) :
                added \in {[buckets |-> [st.buckets EXCEPT ![distance] =
                                            Append(@, ring[k])],
                            seen |-> st.seen \cup {ring[k]}]}} : TRUE
    ELSE ordered_ring_loop_unseen(ring, stone_positions_set, distance, k + 1, st)

\* the innermost loop of get_ordered_positions_around_stones: the positions of
\* one ring, st = [buckets, seen]
RECURSIVE ordered_ring_loop(_, _, _, _, _)
ordered_ring_loop(ring, stone_positions_set, distance, k, st) ==
    IF k > Len(ring) THEN st
    ELSE IF ring[k] \notin st.seen /\ ring[k] \notin stone_positions_set
    THEN CHOOSE done \in
            {ordered_ring_loop(ring, stone_positions_set, distance, k + 1, added) :
                added \in {[buckets |-> [st.buckets EXCEPT ![distance] =
                                            Append(@, ring[k])],
                            seen |-> st.seen \cup {ring[k]}]}} : TRUE
    ELSE ordered_ring_loop(ring, stone_positions_set, distance, k + 1, st)

\* the loop over distance = 1..max_distance for one stone, left by the break
\* when distance > self.max_distance
RECURSIVE ordered_distance_loop(_, _, _, _, _, _)
ordered_distance_loop(r, position_id, stone_positions_set, max_distance, distance, st) ==
    IF distance > max_distance \/ distance > r.max_distance THEN st
    ELSE CHOOSE done \in
            {ordered_distance_loop(r, position_id, stone_positions_set,
                                   max_distance, distance + 1, filled) :
                filled \in {ordered_ring_loop(r.rings[position_id][distance],
                                              stone_positions_set, distance, 1, st)}} : TRUE

\* the loop over the stones, in list order; a stone off the board is skipped
RECURSIVE ordered_stone_loop(_, _, _, _, _, _)
ordered_stone_loop(r, stone_positions, stone_positions_set, max_distance, i, st) ==
    IF i > Len(stone_positions) THEN st
    ELSE IF ~OnBoard(r.board_size, stone_positions[i][1], stone_positions[i][2])
    THEN ordered_stone_loop(r, stone_positions, stone_positions_set, max_distance,
                            i + 1, st)
    ELSE CHOOSE done \in
            {ordered_stone_loop(r, stone_positions, stone_positions_set,
                                max_distance, i + 1, filled) :
                filled \in {ordered_distance_loop(
                                r, encode_position(r.board_size, stone_positions[i][1],
                                                   stone_positions[i][2]),
                                stone_positions_set, max_distance, 1, st)}} : TRUE

get_ordered_positions_around_stones(r, stone_positions, max_distance) ==
    IF Len(stone_positions) = 0 THEN <<>>
    ELSE LET st == ordered_stone_loop(
                       r, stone_positions, Range(stone_positions), max_distance, 1,
                       [buckets |-> [distance \in 1..max_distance |-> <<>>],
                        seen |-> {}])
         IN  RingsUpTo(st.buckets, 1, max_distance)

\* DistanceRings(board_size), no query made yet; one query is made on it
RingsInit ==
    /\ \E n \in 1..MaxRingSize :
          rings = [obj |-> DistanceRings_new(n), op |-> "", query |-> <<>>,
                   result |-> <<>>]
    /\ gs = NotUsed /\ saved = NotUsed
    /\ pente = NotUsed /\ psaved = NotUsed /\ pphase = NotUsed
    /\ sgame = NotUsed /\ sgame0 = NotUsed /\ search = NotUsed
    /\ puct = NotUsed /\ gcall = NotUsed /\ bitboard = NotUsed
    /\ movegen = NotUsed /\ ringcache = NotUsed
    /\ controller = NotUsed /\ humanplayer = NotUsed
    /\ stored = NotUsed /\ dbwriter = NotUsed

\* rings.get_positions_at_distance(center_row, center_col, distance), with
\* centers and distances inside and just outside their ranges
RingsGetPositionsAtDistance ==
    /\ rings.op = ""
    /\ \E center_row \in -1..rings.obj.board_size,
          center_col \in -1..rings.obj.board_size,
          distance \in 0..rings.obj.board_size :
          rings' = [rings EXCEPT
                       !.op = "get_positions_at_distance",
                       !.query = <<center_row, center_col, distance>>,
                       !.result = get_positions_at_distance(rings.obj, center_row,
                                                            center_col, distance)]
    /\ UNCHANGED <<gs, saved, pente, psaved, pphase, sgame, sgame0, search, puct,
                   gcall, bitboard, movegen, ringcache,
                   controller, humanplayer, stored, dbwriter>>

MaxStones == 2           \* longest stone list passed to a DistanceRings

\* entries of a stone list: the cells of the board and two positions off it
\* (v2/tests/test_distance_rings.py test_get_ordered_positions_invalid_stones)
StoneEntries(n) == ((0..(n - 1)) \X (0..(n - 1))) \cup {<<-1, 0>>, <<n, n>>}

StoneLists(n) == UNION {[1..k -> StoneEntries(n)] : k \in 0..MaxStones}

\* rings.get_ordered_positions_around_stones(stone_positions, max_distance)
RingsGetOrderedPositions ==
    /\ rings.op = ""
    /\ \E stone_positions \in StoneLists(rings.obj.board_size),
          max_distance \in 0..rings.obj.board_size :
          rings' = [rings EXCEPT
                       !.op = "get_ordered_positions_around_stones",
                       !.query = <<stone_positions, max_distance>>,
                       !.result = get_ordered_positions_around_stones(
                                      rings.obj, stone_positions, max_distance)]
    /\ UNCHANGED <<gs, saved, pente, psaved, pphase, sgame, sgame0, search, puct,
                   gcall, bitboard, movegen, ringcache,
                   controller, humanplayer, stored, dbwriter>>

RingsNext == RingsGetPositionsAtDistance \/ RingsGetOrderedPositions

SpecRings == RingsInit /\ [][RingsNext]_vars

\* how many times x occurs in the list
Occurrences(list, x) == Cardinality({i \in 1..Len(list) : list[i] = x})

\* C20: for every board size N and every pair of distinct cells a, b of the
\* board, b appears exactly once in get_positions_at_distance(a, d) for
\* d = Chebyshev(a, b) and in no list for any other distance d.  Stated on
\* the answer to the last query (a, d), for every b.
C20_RingsPartitionByDistance ==
    (/\ rings.op = "get_positions_at_distance"
     /\ OnBoard(rings.obj.board_size, rings.query[1], rings.query[2]))
        => \A b \in ((0..(rings.obj.board_size - 1)) \X (0..(rings.obj.board_size - 1))) \ {<<rings.query[1], rings.query[2]>>} :
              Occurrences(rings.result, b) =
                 IF rings.query[3] = get_distance(rings.query[1], rings.query[2], b[1], b[2])
                 THEN 1 ELSE 0

\* the ring at distance 2 around a corner of the 4x4 board: five cells, the
\* cell (1, 2) among them once and the cell (1, 1) not
C20_Witness ==
    /\ rings.obj.board_size = 4
    /\ rings.op = "get_positions_at_distance"
    /\ rings.query = <<0, 0, 2>>
    /\ Len(rings.result) = 5
    /\ Occurrences(rings.result, <<1, 2>>) = 1
    /\ Occurrences(rings.result, <<1, 1>>) = 0

\* the stones of the list that are on the board
StonesOnBoard(n, stone_positions) ==
    {p \in Range(stone_positions) : OnBoard(n, p[1], p[2])}

\* distance from the cell to the nearest of the stones (a non-empty set)
NearestStone(stones, cell) ==
    CHOOSE d \in 0..BitBoardSide :
       /\ \E p \in stones : get_distance(p[1], p[2], cell[1], cell[2]) = d
       /\ \A p \in stones : get_distance(p[1], p[2], cell[1], cell[2]) >= d

\* C21: get_ordered_positions_around_stones(stones, max_distance) returns each
\* cell at most once, never returns a cell that is in stones, and returns
\* exactly the on-board non-stone cells that lie within Chebyshev distance
\* max_distance of at least one stone (a stone being an entry of the list that
\* is on the board; the code skips the other entries).
C21_OrderedPositionsExact ==
    rings.op = "get_ordered_positions_around_stones"
        => LET n      == rings.obj.board_size
               stones == StonesOnBoard(n, rings.query[1])
           IN  /\ \A i, j \in 1..Len(rings.result) :
                     rings.result[i] = rings.result[j] => i = j
               /\ Range(rings.result) \cap Range(rings.query[1]) = {}
               /\ Range(rings.result) =
                     {c \in ((0..(n - 1)) \X (0..(n - 1))) \ Range(rings.query[1]) :
                         \E p \in stones :
                            get_distance(p[1], p[2], c[1], c[2]) <= rings.query[2]}

\* two stones of a 4x4 board whose neighbourhoods overlap: (1, 1) is within
\* distance 1 of both and is returned once
C21_Witness ==
    /\ rings.op = "get_ordered_positions_around_stones"
    /\ rings.obj.board_size = 4
    /\ rings.query = << << <<0, 0>>, <<2, 2>> >>, 1 >>
    /\ Occurrences(rings.result, <<1, 1>>) = 1
    /\ Len(rings.result) = 10

\* C22: the output of get_ordered_positions_around_stones is in
\* non-decreasing order of distance to the nearest stone: no cell appears
\* after a cell whose distance to its nearest stone is larger.
C22_OrderedByNearestStone ==
    rings.op = "get_ordered_positions_around_stones"
        => LET stones == StonesOnBoard(rings.obj.board_size, rings.query[1])
           IN  \A i, j \in 1..Len(rings.result) :
                  i < j => NearestStone(stones, rings.result[i])
                              <= NearestStone(stones, rings.result[j])

(***************************************************************************)
(* MoveGenerator (src/core/move_generator.py) over GameState and           *)
(* DistanceRings.  The generator is built for the board size of the game   *)
(* it is asked about.                                                      *)
(***************************************************************************)
\* the first n entries of a list: list[:n] for n >= 0
Take(list, n) == SubSeq(list, 1, Min2(n, Len(list)))

MoveGenerator_new(board_size) ==
    [board_size |-> board_size, distance_rings |-> DistanceRings_new(board_size)]

\* mutant: the candidates are not filtered by the legal moves
MoveGenerator_get_ordered_moves_unfiltered(mg, game_state, max_distance) ==
    LET stone_positions == [i \in 1..Len(game_state.move_history) |->
                               game_state.move_history[i].position]
    IN  IF Len(stone_positions) = 0
        THEN GameState_get_legal_moves(game_state)
        ELSE get_ordered_positions_around_stones(mg.distance_rings, stone_positions,
                                                 max_distance)

MoveGenerator_get_ordered_moves(mg, game_state, max_distance) ==
    LET stone_positions == [i \in 1..Len(game_state.move_history) |->
                               game_state.move_history[i].position]
    IN  IF Len(stone_positions) = 0
        THEN GameState_get_legal_moves(game_state)
        ELSE LET ordered_candidates == get_ordered_positions_around_stones(
                                           mg.distance_rings, stone_positions,
                                           max_distance)
                 legal_moves == Range(GameState_get_legal_moves(game_state))
             IN  SelectSeq(ordered_candidates, LAMBDA pos : pos \in legal_moves)

\* mutant: the buckets are assigned in the reverse order
get_progressive_widening_moves_narrowing(mg, game_state, node_visits) ==
    LET max_distance == IF node_visits < 10 THEN 5
                        ELSE IF node_visits < 100 THEN 3
                        ELSE IF node_visits < 1000 THEN 2 ELSE 1
        target_moves == IF node_visits < 10 THEN 80
                        ELSE IF node_visits < 100 THEN 50
                        ELSE IF node_visits < 1000 THEN 30 ELSE 15
    IN  Take(MoveGenerator_get_ordered_moves(mg, game_state, max_distance),
             target_moves)

\* mutant: the boundaries of the visit buckets are one too high
get_progressive_widening_moves_late(mg, game_state, node_visits) ==
    LET max_distance == IF node_visits <= 10 THEN 1
                        ELSE IF node_visits <= 100 THEN 2
                        ELSE IF node_visits <= 1000 THEN 3 ELSE 5
        target_moves == IF node_visits <= 10 THEN 15
                        ELSE IF node_visits <= 100 THEN 30
                        ELSE IF node_visits <= 1000 THEN 50 ELSE 80
    IN  Take(MoveGenerator_get_ordered_moves(mg, game_state, max_distance),
             target_moves)

get_progressive_widening_moves(mg, game_state, node_visits) ==
    LET max_distance == IF node_visits < 10 THEN 1
                        ELSE IF node_visits < 100 THEN 2
                        ELSE IF node_visits < 1000 THEN 3 ELSE 5
        target_moves == IF node_visits < 10 THEN 15
                        ELSE IF node_visits < 100 THEN 30
                        ELSE IF node_visits < 1000 THEN 50 ELSE 80
    IN  Take(MoveGenerator_get_ordered_moves(mg, game_state, max_distance),
             target_moves)

get_immediate_moves(mg, game_state) ==
    MoveGenerator_get_ordered_moves(mg, game_state, 1)

get_all_legal_moves_ordered(mg, game_state) ==
    MoveGenerator_get_ordered_moves(mg, game_state, mg.board_size)

MaxGenPlies == 1         \* moves played on top of a start position

\* node_visits values: both sides of every bucket boundary
VisitCounts == {0, 9, 10, 99, 100, 999, 1000, 5000}

\* max_distance values passed to get_ordered_moves
GenDistances(n) == {0, 1, 2, 3, 5, n}

MoveGenStarts ==
    { \* empty board, tournament rule: the second move is restricted
      [board_size |-> 7, captures_to_win |-> 5, tournament_rule |-> TRUE,
       moves |-> <<>>],
      \* X . . X with O O about to be completed: X at (0,3) captures
      [board_size |-> 5, captures_to_win |-> 5, tournament_rule |-> FALSE,
       moves |-> << <<0, 0>>, <<0, 1>>, <<4, 4>>, <<0, 2>> >>],
      \* two stones far apart on a board with more than 80 cells around them
      [board_size |-> 10, captures_to_win |-> 5, tournament_rule |-> FALSE,
       moves |-> << <<2, 2>>, <<7, 7>> >>] }

MoveGenInit ==
    /\ \E s \in MoveGenStarts :
          gs = GameState_replay(
                   GameState_new(s.board_size, s.captures_to_win, s.tournament_rule),
                   s.moves, 1)
    /\ movegen = [op |-> "", arg |-> 0, result |-> <<>>, plies |-> 0]
    /\ saved = NotUsed
    /\ pente = NotUsed /\ psaved = NotUsed /\ pphase = NotUsed
    /\ sgame = NotUsed /\ sgame0 = NotUsed /\ search = NotUsed
    /\ puct = NotUsed /\ gcall = NotUsed /\ bitboard = NotUsed
    /\ rings = NotUsed /\ ringcache = NotUsed
    /\ controller = NotUsed /\ humanplayer = NotUsed
    /\ stored = NotUsed /\ dbwriter = NotUsed

\* the search plays one of the immediate moves the generator proposes
MoveGenPlay ==
    /\ movegen.op = ""
    /\ movegen.plies < MaxGenPlies
    /\ ~GameState_is_terminal(gs)
    /\ \E m \in Range(get_immediate_moves(MoveGenerator_new(gs.board_size), gs)) :
          gs' = GameState_make_move(gs, m).gs
    /\ movegen' = [movegen EXCEPT !.plies = @ + 1]
    /\ UNCHANGED <<saved, pente, psaved, pphase, sgame, sgame0, search, puct,
                   gcall, bitboard, rings, ringcache,
                   controller, humanplayer, stored, dbwriter>>

\* generator.get_ordered_moves(game, max_distance)
MoveGenGetOrderedMoves ==
    /\ movegen.op = ""
    /\ \E max_distance \in GenDistances(gs.board_size) :
          movegen' = [movegen EXCEPT
                         !.op = "get_ordered_moves",
                         !.arg = max_distance,
                         !.result = MoveGenerator_get_ordered_moves(
                                        MoveGenerator_new(gs.board_size), gs,
                                        max_distance)]
    /\ UNCHANGED <<gs, saved, pente, psaved, pphase, sgame, sgame0, search, puct,
                   gcall, bitboard, rings, ringcache,
                   controller, humanplayer, stored, dbwriter>>

\* generator.get_progressive_widening_moves(game, node_visits)
MoveGenProgressiveWidening ==
    /\ movegen.op = ""
    /\ \E node_visits \in VisitCounts :
          movegen' = [movegen EXCEPT
                         !.op = "get_progressive_widening_moves",
                         !.arg = node_visits,
                         !.result = get_progressive_widening_moves(
                                        MoveGenerator_new(gs.board_size), gs,
                                        node_visits)]
    /\ UNCHANGED <<gs, saved, pente, psaved, pphase, sgame, sgame0, search, puct,
                   gcall, bitboard, rings, ringcache,
                   controller, humanplayer, stored, dbwriter>>

\* generator.get_all_legal_moves_ordered(game)
MoveGenAllLegalOrdered ==
    /\ movegen.op = ""
    /\ movegen' = [movegen EXCEPT
                      !.op = "get_all_legal_moves_ordered",
                      !.arg = 0,
                      !.result = get_all_legal_moves_ordered(
                                     MoveGenerator_new(gs.board_size), gs)]
    /\ UNCHANGED <<gs, saved, pente, psaved, pphase, sgame, sgame0, search, puct,
                   gcall, bitboard, rings, ringcache,
                   controller, humanplayer, stored, dbwriter>>

MoveGenNext ==
    \/ MoveGenPlay
    \/ MoveGenGetOrderedMoves
    \/ MoveGenProgressiveWidening
    \/ MoveGenAllLegalOrdered

SpecMoveGen == MoveGenInit /\ [][MoveGenNext]_vars

NoRepeats(list) == \A i, j \in 1..Len(list) : list[i] = list[j] => i = j

\* the legal moves of a GameState, from the rules: the empty cells of the
\* board, for the second move under the tournament rule those at Chebyshev
\* distance 3 or more from the center
LegalCells(g) ==
    {p \in (0..(g.board_size - 1)) \X (0..(g.board_size - 1)) :
        /\ get_stone(g.board, p[1], p[2]) = 0
        /\ (g.tournament_rule /\ g.move_count = 1)
              => get_distance(p[1], p[2], g.board_size \div 2, g.board_size \div 2) >= 3}

\* C23: get_ordered_moves(state, d): when no stone has been played it returns
\* exactly state.get_legal_moves(); otherwise every returned move is a legal
\* move of state and no move is returned twice.
C23_OrderedMovesLegal ==
    movegen.op = "get_ordered_moves"
        => IF gs.move_count = 0
           THEN movegen.result = GameState_get_legal_moves(gs)
           ELSE /\ Range(movegen.result) \subseteq LegalCells(gs)
                /\ NoRepeats(movegen.result)

\* the second move under the tournament rule on a 7x7 board, asked for at
\* distance 3: only border cells within reach of the first stone are returned
C23_Witness ==
    /\ movegen.op = "get_ordered_moves"
    /\ movegen.arg = 3
    /\ gs.tournament_rule
    /\ gs.move_count = 1
    /\ movegen.result # <<>>
    /\ Len(movegen.result) < 24
    /\ Range(movegen.result) \subseteq LegalCells(gs)

\* C24: for every reachable GameState with at least one stone played, states
\* reached after captures included, get_all_legal_moves_ordered(state)
\* contains every legal move of the state exactly once and nothing else.
C24_AllLegalMovesOrdered ==
    (movegen.op = "get_all_legal_moves_ordered" /\ gs.move_count > 0)
        => /\ NoRepeats(movegen.result)
           /\ Range(movegen.result) = Range(GameState_get_legal_moves(gs))
           /\ Len(movegen.result) = Len(GameState_get_legal_moves(gs))

\* (max_distance, target_count) for a visit count, as the specification
\* tabulates it
WideningTable(v) ==
    IF v < 10 THEN <<1, 15>>
    ELSE IF v < 100 THEN <<2, 30>>
    ELSE IF v < 1000 THEN <<3, 50>>
    ELSE <<5, 80>>

\* C25: get_progressive_widening_moves(state, v) equals the first
\* target_count entries of get_ordered_moves(state, max_distance), where
\* (max_distance, target_count) is (1,15) for v < 10, (2,30) for
\* 10 <= v < 100, (3,50) for 100 <= v < 1000 and (5,80) for v >= 1000; its
\* length never exceeds target_count.
C25_ProgressiveWideningTable ==
    movegen.op = "get_progressive_widening_moves"
        => LET t == WideningTable(movegen.arg)
               ordered == MoveGenerator_get_ordered_moves(
                              MoveGenerator_new(gs.board_size), gs, t[1])
           IN  /\ Len(movegen.result) <= t[2]
               /\ Len(movegen.result) = Min2(Len(ordered), t[2])
               /\ \A i \in 1..Len(movegen.result) : movegen.result[i] = ordered[i]

\* 100 visits on the 10x10 board: more than 50 moves lie within distance 3
\* of the stones and the first 50 of them are returned
C25_Witness ==
    /\ movegen.op = "get_progressive_widening_moves"
    /\ movegen.arg = 100
    /\ Len(movegen.result) = 50
    /\ Len(MoveGenerator_get_ordered_moves(MoveGenerator_new(gs.board_size), gs, 3)) > 50

\* C26: progressive widening is monotone in the visit count: for a fixed
\* board state and any v1 < v2, get_progressive_widening_moves(state, v1)
\* returns at most as many moves as get_progressive_widening_moves(state, v2).
\* Every state is queried with every visit count, so it is enough to compare
\* each answer with the answer for the next larger visit count.
C26_WideningMonotone ==
    movegen.op = "get_progressive_widening_moves"
        => \A v2 \in VisitCounts :
              (movegen.arg < v2 /\ \A v \in VisitCounts : v <= movegen.arg \/ v >= v2)
                 => Len(movegen.result)
                       <= Len(get_progressive_widening_moves(
                                  MoveGenerator_new(gs.board_size), gs, v2))

\* 9 visits against 10 on the 10x10 board: 15 moves against 30
C26_Witness ==
    /\ movegen.op = "get_progressive_widening_moves"
    /\ movegen.arg = 9
    /\ Len(movegen.result) = 15
    /\ Len(get_progressive_widening_moves(MoveGenerator_new(gs.board_size), gs,
                                          10)) = 30

\* C32: in a GameState that is not terminal get_progressive_widening_moves
\* returns at least one move for every visit count, so a search node that is
\* not terminal always has a candidate child.
C32_WideningNonEmpty ==
    (movegen.op = "get_progressive_widening_moves" /\ ~GameState_is_terminal(gs))
        => movegen.result # <<>>

(***************************************************************************)
(* get_distance_rings (v3/src/core/distance_rings.py): the module global   *)
(* _global_distance_rings.  An object is known by the order in which it    *)
(* was built: built[i] is the board size of the i-th DistanceRings built   *)
(* in the process, global_ring is the index of the object the global       *)
(* refers to, 0 for None.                                                  *)
(***************************************************************************)
MaxCacheCalls == 4       \* calls of get_distance_rings in one process

CacheSizes == {5, 7, 9, 19}

RingCacheInit ==
    /\ ringcache = [global_ring |-> 0, built |-> <<>>, calls |-> 0,
                    board_size |-> 0, returned |-> 0, requested |-> {}]
    /\ gs = NotUsed /\ saved = NotUsed
    /\ pente = NotUsed /\ psaved = NotUsed /\ pphase = NotUsed
    /\ sgame = NotUsed /\ sgame0 = NotUsed /\ search = NotUsed
    /\ puct = NotUsed /\ gcall = NotUsed /\ bitboard = NotUsed
    /\ rings = NotUsed /\ movegen = NotUsed
    /\ controller = NotUsed /\ humanplayer = NotUsed
    /\ stored = NotUsed /\ dbwriter = NotUsed

\* get_distance_rings(board_size); requested is the set of sizes asked for
\* before this call
GetDistanceRings ==
    /\ ringcache.calls < MaxCacheCalls
    /\ \E board_size \in CacheSizes :
          LET rebuild == \/ ringcache.global_ring = 0
                         \/ ringcache.built[ringcache.global_ring] # board_size
              built1  == IF rebuild THEN Append(ringcache.built, board_size)
                         ELSE ringcache.built
              global1 == IF rebuild THEN Len(built1) ELSE ringcache.global_ring
          IN  ringcache' = [global_ring |-> global1, built |-> built1,
                            calls |-> ringcache.calls + 1,
                            board_size |-> board_size, returned |-> global1,
                            requested |-> IF ringcache.calls = 0 THEN {}
                                          ELSE ringcache.requested
                                                  \cup {ringcache.board_size}]
    /\ UNCHANGED <<gs, saved, pente, psaved, pphase, sgame, sgame0, search, puct,
                   gcall, bitboard, rings, movegen,
                   controller, humanplayer, stored, dbwriter>>

RingCacheNext == GetDistanceRings

SpecRingCache == RingCacheInit /\ [][RingCacheNext]_vars

\* C27: get_distance_rings(n) builds the table for a board size at most once
\* per process: a later call with a size n that was requested before returns
\* the very instance built for n the first time, whatever calls for other
\* sizes were made in between.
C27_OneInstancePerSize ==
    /\ \A i, j \in 1..Len(ringcache.built) :
          ringcache.built[i] = ringcache.built[j] => i = j
    /\ (ringcache.calls > 0 /\ ringcache.board_size \in ringcache.requested)
          => \A i \in 1..Len(ringcache.built) :
                ringcache.built[i] = ringcache.board_size => ringcache.returned <= i

(***************************************************************************)
(* Pente (src/games/pente.py, src/games/base_game.py): numpy board, one    *)
(* move per history entry, cached legal moves.                             *)
(***************************************************************************)
CellSet(n) == (0..(n - 1)) \X (0..(n - 1))

Pente_new(board_size, captures_to_win, tournament_rule) ==
    [board_size |-> board_size,
     board |-> [c \in CellSet(board_size) |-> 0],
     current_player |-> 1,
     captures |-> [p \in Players |-> 0],
     move_history |-> <<>>,
     captures_to_win |-> captures_to_win,
     tournament_rule |-> tournament_rule,
     move_count |-> 0,
     legal_moves_cache |-> CellSet(board_size),
     tournament_legal_moves_cache |-> {},
     tournament_cache_valid |-> FALSE]

\* _verify_cache_consistency: resynchronise the cache when its size is off
Pente_verify_cache_consistency(g) ==
    LET actual_legal  == {c \in CellSet(g.board_size) : g.board[c] = 0}
        expected_size == g.board_size * g.board_size
                           - Cardinality({c \in CellSet(g.board_size) : g.board[c] # 0})
    IN  IF Cardinality(g.legal_moves_cache) = expected_size THEN g
        ELSE IF actual_legal # g.legal_moves_cache
        THEN [g EXCEPT !.legal_moves_cache = actual_legal,
                       !.tournament_cache_valid = FALSE]
        ELSE g

Pente_update_tournament_cache(g) ==
    LET center == g.board_size \div 2
    IN  [g EXCEPT
           !.tournament_legal_moves_cache =
               {m \in g.legal_moves_cache :
                   Max2(Abs(m[1] - center), Abs(m[2] - center)) >= 3},
           !.tournament_cache_valid = TRUE]

\* mutant: the restriction is applied to the second move of the game
Pente_get_legal_moves_second(g) ==
    LET g1 == Pente_verify_cache_consistency(g)
    IN  IF g1.tournament_rule /\ g1.move_count = 1 /\ g1.current_player = -1
        THEN LET g2 == IF g1.tournament_cache_valid THEN g1
                       ELSE Pente_update_tournament_cache(g1)
             IN  [game |-> g2, moves |-> g2.tournament_legal_moves_cache]
        ELSE [game |-> g1, moves |-> g1.legal_moves_cache]

\* get_legal_moves: [game (caches refreshed), moves (the elements of the list)]
Pente_get_legal_moves(g) ==
    LET g1 == Pente_verify_cache_consistency(g)
    IN  IF g1.tournament_rule /\ g1.move_count = 2 /\ g1.current_player = 1
        THEN LET g2 == IF g1.tournament_cache_valid THEN g1
                       ELSE Pente_update_tournament_cache(g1)
             IN  [game |-> g2, moves |-> g2.tournament_legal_moves_cache]
        ELSE [game |-> g1, moves |-> g1.legal_moves_cache]

\* mutant: the captured cells are not put back into the legal-move cache
Pente_capture_dir_cache_kept(st, row, col, d) ==
    LET g  == st.game
        n  == g.board_size
        c1 == <<row + d[1], col + d[2]>>
        c2 == <<row + 2 * d[1], col + 2 * d[2]>>
        c3 == <<row + 3 * d[1], col + 3 * d[2]>>
        hit == /\ OnBoard(n, c1[1], c1[2]) /\ g.board[c1] = -g.current_player
               /\ OnBoard(n, c2[1], c2[2]) /\ g.board[c2] = -g.current_player
               /\ OnBoard(n, c3[1], c3[2]) /\ g.board[c3] = g.current_player
    IN  IF hit
        THEN [game |-> [g EXCEPT !.board = [@ EXCEPT ![c1] = 0, ![c2] = 0],
                                 !.tournament_cache_valid = FALSE],
              total |-> st.total + 2]
        ELSE st

\* One iteration of the for loop of _check_captures; st = [game, total].
Pente_capture_dir(st, row, col, d) ==
    LET g  == st.game
        n  == g.board_size
        c1 == <<row + d[1], col + d[2]>>
        c2 == <<row + 2 * d[1], col + 2 * d[2]>>
        c3 == <<row + 3 * d[1], col + 3 * d[2]>>
        hit == /\ OnBoard(n, c1[1], c1[2]) /\ g.board[c1] = -g.current_player
               /\ OnBoard(n, c2[1], c2[2]) /\ g.board[c2] = -g.current_player
               /\ OnBoard(n, c3[1], c3[2]) /\ g.board[c3] = g.current_player
    IN  IF hit
        THEN [game |-> [g EXCEPT !.board = [@ EXCEPT ![c1] = 0, ![c2] = 0],
                                 !.legal_moves_cache = @ \cup {c1, c2},
                                 !.tournament_cache_valid = FALSE],
              total |-> st.total + 2]
        ELSE st

RECURSIVE Pente_capture_loop(_, _, _, _)
Pente_capture_loop(st, row, col, i) ==
    IF i > Len(CaptureDirections) THEN st
    ELSE Pente_capture_loop(Pente_capture_dir(st, row, col, CaptureDirections[i]),
                            row, col, i + 1)

\* _check_captures: [game, total]; total counts the stones taken
Pente_check_captures(g, row, col) ==
    Pente_capture_loop([game |-> g, total |-> 0], row, col, 1)

\* make_move: [err, game]; chk is the value _check_captures returns
Pente_make_move(g, move) ==
    IF g.board[move] # 0
    THEN [err |-> "occupied", game |-> g]
    ELSE
      CHOOSE r \in
        {[err |-> "",
          game |-> [chk.game EXCEPT
                      !.captures = [@ EXCEPT ![chk.game.current_player] = @ + chk.total],
                      !.current_player = -@]] :
           chk \in {Pente_check_captures(
                       [g EXCEPT !.board = [@ EXCEPT ![move] = g.current_player],
                                 !.move_history = Append(@, move),
                                 !.move_count = @ + 1,
                                 !.legal_moves_cache = @ \ {move},
                                 !.tournament_cache_valid = FALSE],
                       move[1], move[2])}} : TRUE

\* One iteration of the for loop of _restore_captured_stones.
Pente_restore_dir(g, row, col, player, d) ==
    LET n  == g.board_size
        c1 == <<row + d[1], col + d[2]>>
        c2 == <<row + 2 * d[1], col + 2 * d[2]>>
        c3 == <<row + 3 * d[1], col + 3 * d[2]>>
    IN  IF /\ OnBoard(n, c1[1], c1[2]) /\ OnBoard(n, c2[1], c2[2])
           /\ OnBoard(n, c3[1], c3[2])
           /\ g.board[c1] = 0 /\ g.board[c2] = 0 /\ g.board[c3] = player
        THEN [g EXCEPT !.board = [@ EXCEPT ![c1] = -player, ![c2] = -player],
                       !.legal_moves_cache = @ \ {c1, c2},
                       !.captures = [@ EXCEPT ![player] = @ - 2],
                       !.tournament_cache_valid = FALSE]
        ELSE g

RECURSIVE Pente_restore_captured_stones(_, _, _, _, _)
Pente_restore_captured_stones(g, row, col, player, i) ==
    IF i > Len(CaptureDirections) THEN g
    ELSE Pente_restore_captured_stones(
             Pente_restore_dir(g, row, col, player, CaptureDirections[i]),
             row, col, player, i + 1)

Pente_undo_move(g) ==
    IF g.move_history = <<>> THEN g
    ELSE
      LET n               == Len(g.move_history)
          last_move       == g.move_history[n]
          previous_player == -g.current_player
          g1 == [g EXCEPT !.move_history = SubSeq(@, 1, n - 1),
                          !.move_count = @ - 1,
                          !.board = [@ EXCEPT ![last_move] = 0],
                          !.legal_moves_cache = @ \cup {last_move},
                          !.tournament_cache_valid = FALSE]
          g2 == Pente_restore_captured_stones(g1, last_move[1], last_move[2],
                                              previous_player, 1)
      IN  [g2 EXCEPT !.current_player = previous_player]

RECURSIVE Pente_run(_, _, _, _)
Pente_run(g, c, d, player) ==
    IF OnBoard(g.board_size, c[1], c[2]) /\ g.board[c] = player
    THEN 1 + Pente_run(g, <<c[1] + d[1], c[2] + d[2]>>, d, player)
    ELSE 0

Pente_check_five_in_row(g) ==
    LET Hit(c) ==
            /\ g.board[c] # 0
            /\ \E i \in 1..Len(LineDirections) :
                  LET d == LineDirections[i]
                  IN  1 + Pente_run(g, <<c[1] + d[1], c[2] + d[2]>>, d, g.board[c])
                        + Pente_run(g, <<c[1] - d[1], c[2] - d[2]>>, <<-d[1], -d[2]>>,
                                    g.board[c]) >= 5
        hits == SelectSeq(RowMajor(g.board_size), Hit)
    IN  IF hits = <<>> THEN 0 ELSE g.board[hits[1]]

Pente_get_winner(g) ==
    IF g.captures[1] >= g.captures_to_win THEN 1
    ELSE IF g.captures[-1] >= g.captures_to_win THEN -1
    ELSE Pente_check_five_in_row(g)

\* is_terminal: [game (caches refreshed by get_legal_moves), terminal]
Pente_is_terminal(g) ==
    IF Pente_get_winner(g) # 0 THEN [game |-> g, terminal |-> TRUE]
    ELSE LET r == Pente_get_legal_moves(g)
         IN  [game |-> r.game, terminal |-> r.moves = {}]

Pente_clone(g) == g

\* what a caller can observe of a Pente object
Pente_view(g) ==
    [board |-> g.board,
     current_player |-> g.current_player,
     captures |-> g.captures,
     move_count |-> g.move_count,
     move_history |-> g.move_history]

RECURSIVE Pente_replay(_, _, _)
Pente_replay(g, moves, i) ==
    IF i > Len(moves) THEN g
    ELSE Pente_replay(Pente_make_move(g, moves[i]).game, moves, i + 1)

PenteStarts ==
    { [board_size |-> 7, captures_to_win |-> 5, tournament_rule |-> TRUE,
       moves |-> <<>>],
      [board_size |-> 5, captures_to_win |-> 5, tournament_rule |-> FALSE,
       moves |-> <<>>],
      \* X at (0,3) captures the pair on row 0
      [board_size |-> 5, captures_to_win |-> 2, tournament_rule |-> FALSE,
       moves |-> << <<0, 0>>, <<0, 1>>, <<4, 4>>, <<0, 2>> >>],
      \* X at (0,0) captures along the row and along the column at once
      [board_size |-> 5, captures_to_win |-> 5, tournament_rule |-> FALSE,
       moves |-> << <<0, 3>>, <<0, 1>>, <<3, 0>>, <<0, 2>>,
                    <<4, 4>>, <<1, 0>>, <<4, 3>>, <<2, 0>> >>],
      \* four in a row for X (row 2) and a split four for O (row 0)
      [board_size |-> 5, captures_to_win |-> 5, tournament_rule |-> FALSE,
       moves |-> << <<2, 0>>, <<0, 0>>, <<2, 1>>, <<0, 1>>,
                    <<2, 2>>, <<0, 3>>, <<2, 3>>, <<0, 4>> >>] }

PenteInit ==
    /\ \E s \in PenteStarts :
          pente = Pente_replay(
                      Pente_new(s.board_size, s.captures_to_win, s.tournament_rule),
                      s.moves, 1)
    /\ psaved = <<>>
    /\ pphase = "play"
    /\ gs = NotUsed /\ saved = NotUsed
    /\ sgame = NotUsed /\ sgame0 = NotUsed /\ search = NotUsed
    /\ puct = NotUsed
    /\ gcall = NotUsed /\ bitboard = NotUsed /\ rings = NotUsed
    /\ movegen = NotUsed /\ ringcache = NotUsed
    /\ controller = NotUsed /\ humanplayer = NotUsed
    /\ stored = NotUsed /\ dbwriter = NotUsed

\* The driver plays up to MaxPlies moves and then takes them back in reverse
\* order, as a search does; get_legal_moves may be called at any point.
PenteMakeMove ==
    /\ pphase = "play"
    /\ Len(psaved) < MaxPlies
    /\ \E m \in CellSet(pente.board_size) :
          /\ pente.board[m] = 0
          /\ pente' = Pente_make_move(pente, m).game
          /\ psaved' = Append(psaved, pente)
    /\ UNCHANGED <<gs, saved, pphase, sgame, sgame0, search, puct, gcall, bitboard, rings,
                   movegen, ringcache,
                   controller, humanplayer, stored, dbwriter>>

PenteUndoMove ==
    /\ psaved # <<>> \/ pente.move_history = <<>>
    /\ pphase' = IF psaved # <<>> THEN "unwind" ELSE pphase
    /\ pente' = Pente_undo_move(pente)
    /\ psaved' = IF psaved = <<>> THEN psaved ELSE SubSeq(psaved, 1, Len(psaved) - 1)
    /\ UNCHANGED <<gs, saved, sgame, sgame0, search, puct, gcall, bitboard, rings,
                   movegen, ringcache,
                   controller, humanplayer, stored, dbwriter>>

PenteGetLegalMoves ==
    /\ pente' = Pente_get_legal_moves(pente).game
    /\ UNCHANGED <<gs, saved, psaved, pphase, sgame, sgame0, search, puct, gcall, bitboard, rings,
                   movegen, ringcache,
                   controller, humanplayer, stored, dbwriter>>

PenteNext == PenteMakeMove \/ PenteUndoMove \/ PenteGetLegalMoves

SpecPente == PenteInit /\ [][PenteNext]_vars

(***************************************************************************)
(* Properties of Pente.                                                    *)
(***************************************************************************)
\* C18 for Pente.undo_move, which returns nothing: on an empty move history
\* the object is left exactly as it was.
C18_PenteUndoEmptyHistoryNoOp ==
    pente.move_history = <<>> => Pente_undo_move(pente) = pente

\* the number of directions in which a stone of g.current_player on move
\* completes X,O,O,X on the board of g
PenteCompletedDirections(g, move) ==
    Cardinality({i \in 1..Len(CaptureDirections) :
        LET d  == CaptureDirections[i]
            c1 == <<move[1] + d[1], move[2] + d[2]>>
            c2 == <<move[1] + 2 * d[1], move[2] + 2 * d[2]>>
            c3 == <<move[1] + 3 * d[1], move[2] + 3 * d[2]>>
        IN  /\ OnBoard(g.board_size, c3[1], c3[2])
            /\ g.board[c1] = -g.current_player
            /\ g.board[c2] = -g.current_player
            /\ g.board[c3] = g.current_player})

\* the pairs player has taken in the game that starts at g and goes on with
\* history[i], history[i + 1], ...
RECURSIVE PairsCaptured(_, _, _, _)
PairsCaptured(g, history, i, player) ==
    IF i > Len(history) THEN 0
    ELSE (IF g.current_player = player THEN PenteCompletedDirections(g, history[i])
                                       ELSE 0)
         + PairsCaptured(Pente_make_move(g, history[i]).game, history, i + 1, player)

\* C30: Pente counts captures in pairs: make_move adds exactly 1 to
\* captures[mover] for each direction in which the move completes X,O,O,X,
\* and get_winner reports a win by captures for a player exactly when that
\* player has taken captures_to_win pairs.
C30_CapturesCountedInPairs ==
    pphase = "play" =>
      /\ psaved # <<>> =>
            LET before == psaved[Len(psaved)]
                move   == pente.move_history[Len(pente.move_history)]
            IN  pente.captures[before.current_player]
                  = before.captures[before.current_player]
                      + PenteCompletedDirections(before, move)
      /\ \A p \in {1, -1} :
            (pente.captures[p] >= pente.captures_to_win /\ Pente_get_winner(pente) = p)
              <=> PairsCaptured(Pente_new(pente.board_size, pente.captures_to_win,
                                          pente.tournament_rule),
                                pente.move_history, 1, p) >= pente.captures_to_win

PenteEmptyCells(g) == {c \in CellSet(g.board_size) : g.board[c] = 0}

\* C34: after any sequence of make_move and undo_move, capturing moves
\* included, the legal-move cache is the set of empty cells, and outside the
\* turn the tournament rule restricts get_legal_moves returns exactly the
\* empty cells.
C34_CacheIsEmptyCells ==
    /\ pente.legal_moves_cache = PenteEmptyCells(pente)
    /\ ~(pente.tournament_rule /\ pente.move_count = 2 /\ pente.current_player = 1)
          => Pente_get_legal_moves(pente).moves = PenteEmptyCells(pente)

\* a capturing move, a further move and its undo: the two cells the capture
\* emptied are in the cache
C34_Witness ==
    /\ pphase = "unwind"
    /\ Len(psaved) = 1
    /\ \E p \in {1, -1} : pente.captures[p] > psaved[1].captures[p]
    /\ Cardinality(pente.legal_moves_cache \ psaved[1].legal_moves_cache) = 2
    /\ pente.legal_moves_cache = PenteEmptyCells(pente)

\* C4: for every legal move m, make_move(m) followed by undo_move() restores
\* the board, both capture counts, current_player, move_count and
\* move_history exactly, whether or not m captured.
C4_UndoRestoresPente ==
    psaved # <<>> => Pente_view(Pente_undo_move(pente)) = Pente_view(psaved[Len(psaved)])

WEIGHTS ==
    [critical |-> 100, very_high |-> 50, high |-> 20, medium |-> 5, low |-> 1]

MoveHeuristic_is_winning_move(g, move, player) ==
    LET game_copy == Pente_make_move(Pente_clone(g), move).game
    IN  Pente_get_winner(game_copy) = player

\* mutant: the caller's current_player is left on the opponent
MoveHeuristic_is_blocking_win_no_restore(g, move, opponent) ==
    LET g1 == [g EXCEPT !.current_player = opponent]
    IN  [game |-> g1, result |-> MoveHeuristic_is_winning_move(g1, move, opponent)]

\* _is_blocking_win: [game, result]
MoveHeuristic_is_blocking_win(g, move, opponent) ==
    LET original_player == g.current_player
        g1 == [g EXCEPT !.current_player = opponent]
        is_blocking == MoveHeuristic_is_winning_move(g1, move, opponent)
    IN  [game |-> [g1 EXCEPT !.current_player = original_player],
         result |-> is_blocking]

MoveHeuristic_creates_capture(g, move, player) ==
    \E i \in 1..Len(CaptureDirections) :
        LET d  == CaptureDirections[i]
            c1 == <<move[1] + d[1], move[2] + d[2]>>
            c2 == <<move[1] + 2 * d[1], move[2] + 2 * d[2]>>
            c3 == <<move[1] + 3 * d[1], move[2] + 3 * d[2]>>
        IN  /\ OnBoard(g.board_size, c1[1], c1[2])
            /\ OnBoard(g.board_size, c2[1], c2[2])
            /\ OnBoard(g.board_size, c3[1], c3[2])
            /\ g.board[c1] = -player /\ g.board[c2] = -player
            /\ g.board[c3] = player

MoveHeuristic_creates_threat(g, move, player, length, open_ends) ==
    \E i \in 1..Len(LineDirections) :
        LET d    == LineDirections[i]
            fwd  == Pente_run(g, <<move[1] + d[1], move[2] + d[2]>>, d, player)
            bwd  == Pente_run(g, <<move[1] - d[1], move[2] - d[2]>>,
                              <<-d[1], -d[2]>>, player)
            e1   == <<move[1] + (fwd + 1) * d[1], move[2] + (fwd + 1) * d[2]>>
            e2   == <<move[1] - (bwd + 1) * d[1], move[2] - (bwd + 1) * d[2]>>
            Open(e) == OnBoard(g.board_size, e[1], e[2]) /\ g.board[e] = 0
            open_count == (IF Open(e1) THEN 1 ELSE 0) + (IF Open(e2) THEN 1 ELSE 0)
        IN  1 + fwd + bwd >= length /\ (~open_ends \/ open_count >= 2)

MoveHeuristic_creates_open_four(g, move, player) ==
    MoveHeuristic_creates_threat(g, move, player, 4, TRUE)

MoveHeuristic_creates_open_three(g, move, player) ==
    MoveHeuristic_creates_threat(g, move, player, 3, TRUE)

\* the inner loop of _blocks_open_three, offsets from offset to 4
RECURSIVE MoveHeuristic_block_count(_, _, _, _, _, _)
MoveHeuristic_block_count(g, move, opponent, d, offset, count) ==
    IF offset > 4 THEN count
    ELSE LET c == <<move[1] + offset * d[1], move[2] + offset * d[2]>>
             count1 == IF ~OnBoard(g.board_size, c[1], c[2]) THEN count
                       ELSE IF g.board[c] = opponent THEN count + 1
                       ELSE IF g.board[c] = -opponent THEN 0
                       ELSE count
         IN  MoveHeuristic_block_count(g, move, opponent, d, offset + 1, count1)

MoveHeuristic_blocks_open_three(g, move, opponent) ==
    \E i \in 1..Len(LineDirections) :
        MoveHeuristic_block_count(g, move, opponent, LineDirections[i], -4, 0) >= 2

MoveHeuristic_is_near_cluster(g, move) ==
    \E c \in CellSet(g.board_size) :
        /\ g.board[c] # 0
        /\ Max2(Abs(c[1] - move[1]), Abs(c[2] - move[2])) <= 2

\* _evaluate_move: [game, score]; b is what _is_blocking_win returns
\* mutant: the test for a cell the opponent would win on is left out
MoveHeuristic_evaluate_move_no_block(g, move) ==
    IF MoveHeuristic_is_winning_move(g, move, g.current_player)
    THEN [game |-> g, score |-> WEIGHTS.critical]
    ELSE [game |-> g,
          score |-> IF MoveHeuristic_creates_capture(g, move, g.current_player)
                    THEN WEIGHTS.very_high
                    ELSE IF MoveHeuristic_is_near_cluster(g, move)
                    THEN WEIGHTS.medium
                    ELSE WEIGHTS.low]

MoveHeuristic_evaluate_move(g, move) ==
    IF MoveHeuristic_is_winning_move(g, move, g.current_player)
    THEN [game |-> g, score |-> WEIGHTS.critical]
    ELSE
      CHOOSE r \in
        {[game |-> b.game,
          score |->
             IF b.result THEN WEIGHTS.critical
             ELSE IF MoveHeuristic_creates_capture(b.game, move, g.current_player)
                  THEN WEIGHTS.very_high
             ELSE IF MoveHeuristic_creates_open_four(b.game, move, g.current_player)
                  THEN WEIGHTS.very_high
             ELSE IF MoveHeuristic_creates_open_three(b.game, move, g.current_player)
                  THEN WEIGHTS.high
             ELSE IF MoveHeuristic_blocks_open_three(b.game, move, -g.current_player)
                  THEN WEIGHTS.high
             ELSE IF MoveHeuristic_is_near_cluster(b.game, move)
                  THEN WEIGHTS.medium
             ELSE WEIGHTS.low] :
           b \in {MoveHeuristic_is_blocking_win(g, move, -g.current_player)}} : TRUE

\* The list a set of moves is turned into.  The order of list(set) is not
\* fixed by the code; the scores below do not depend on it, and every place
\* that takes "the first" move of such a list is a choice among the
\* candidates.
MoveList(g, moves) ==
    SelectSeq(RowMajor(g.board_size), LAMBDA c : c \in moves)

\* the for loop of evaluate_moves; st = [game, score], e the value of the
\* call of _evaluate_move in iteration i
RECURSIVE MoveHeuristic_evaluate_loop(_, _, _)
MoveHeuristic_evaluate_loop(st, list, i) ==
    IF i > Len(list) THEN st
    ELSE CHOOSE r \in
             {MoveHeuristic_evaluate_loop(
                  [game |-> e.game, score |-> st.score @@ (list[i] :> e.score)],
                  list, i + 1) :
                  e \in {MoveHeuristic_evaluate_move(st.game, list[i])}} : TRUE

\* evaluate_moves: [game, score], score maps each move to its heuristic score
MoveHeuristic_evaluate_moves(g, moves) ==
    MoveHeuristic_evaluate_loop([game |-> g, score |-> <<>>], MoveList(g, moves), 1)

\* the moves that can stand first in sorted(move_scores, reverse=True)
TopMoves(moves, score) ==
    {m \in moves : \A o \in moves : score[m] >= score[o]}


(***************************************************************************)
(* MCTSNode and MCTS (src/src/mcts/mcts.py).  The tree is a sequence of    *)
(* nodes; parent and children are positions in it, 0 standing for None.    *)
(* wins is kept in units of 1/ValueUnit.                                   *)
(***************************************************************************)
MaxIterations == 2      \* largest max_iterations a search is run with
MaxPlayout == 1         \* most moves a simulation adds before it ends

ValueUnit == 10000

\* mutant: the node takes every empty cell as an untried move
MCTSNode_new_every_cell(game_state, move, parent) ==
    CHOOSE r \in
      {[node |-> [game_state    |-> Pente_clone(game_state),
                  move          |-> move,
                  parent        |-> parent,
                  children      |-> <<>>,
                  visits        |-> 0,
                  wins          |-> 0,
                  untried_moves |-> ev.moves,
                  score         |-> ev.score],
        game |-> ev.game] :
         ev \in {[moves |-> lm.legal_moves_cache] @@
                    (IF lm.legal_moves_cache # {}
                     THEN MoveHeuristic_evaluate_moves(lm, lm.legal_moves_cache)
                     ELSE [game |-> lm, score |-> <<>>]) :
                    lm \in {Pente_verify_cache_consistency(game_state)}}} : TRUE

\* MCTSNode.__init__: [node, game]; game is the argument after the call.
\* lm is what get_legal_moves returns, ev what evaluate_moves returns.
MCTSNode_new(game_state, move, parent) ==
    CHOOSE r \in
      {[node |-> [game_state    |-> Pente_clone(game_state),
                  move          |-> move,
                  parent        |-> parent,
                  children      |-> <<>>,
                  visits        |-> 0,
                  wins          |-> 0,
                  untried_moves |-> ev.moves,
                  score         |-> ev.score],
        game |-> ev.game] :
         ev \in {[moves |-> lm.moves] @@
                    (IF lm.moves # {}
                     THEN MoveHeuristic_evaluate_moves(lm.game, lm.moves)
                     ELSE [game |-> lm.game, score |-> <<>>]) :
                    lm \in {Pente_get_legal_moves(game_state)}}} : TRUE

is_fully_expanded(node) == node.untried_moves = {}

MCTSNode_is_terminal(node) == Pente_is_terminal(node.game_state).terminal

\* The nodes at which the while loop of _select_and_expand can stop below
\* node i.  best_child maximises ucb1_score, a floating-point expression in
\* log and sqrt of the visit counts; it is modelled as a choice among the
\* children.
RECURSIVE SelectTargets(_, _)
SelectTargets(nodes, i) ==
    IF ~MCTSNode_is_terminal(nodes[i]) /\ is_fully_expanded(nodes[i])
    THEN UNION {SelectTargets(nodes, nodes[i].children[k]) :
                    k \in 1..Len(nodes[i].children)}
    ELSE {i}

\* is_terminal() is called on every node the selection passes through, t
\* the node it stops at; the call refreshes the caches of the node's game
RECURSIVE VisitPath(_, _)
VisitPath(nodes, t) ==
    LET nodes1 == [nodes EXCEPT ![t].game_state = Pente_is_terminal(@).game]
    IN  IF nodes[t].parent = 0 THEN nodes1
        ELSE VisitPath(nodes1, nodes[t].parent)

\* add_child: the tree with the child appended
add_child(nodes, i, move) ==
    LET new_game_state == Pente_make_move(Pente_clone(nodes[i].game_state), move).game
        child == MCTSNode_new(new_game_state, move, i).node
    IN  Append([nodes EXCEPT ![i].children = Append(@, Len(nodes) + 1),
                             ![i].untried_moves = @ \ {move}],
               child)

update(node, result) ==
    [node EXCEPT !.visits = @ + 1, !.wins = @ + result]

\* backpropagate without the call on the parent
backpropagate_leaf_only(nodes, i, result) ==
    [nodes EXCEPT ![i] = update(@, result)]

RECURSIVE backpropagate(_, _, _)
backpropagate(nodes, i, result) ==
    LET nodes1 == [nodes EXCEPT ![i] = update(@, result)]
    IN  IF nodes[i].parent # 0
        THEN backpropagate(nodes1, nodes[i].parent, -result)
        ELSE nodes1

\* 0.8 * exp(-move_count / 50) in units of 1/ValueUnit, by repeated
\* multiplication with exp(-1/50) = 0.9802 (rounded down)
RECURSIVE ExpDecay(_)
ExpDecay(move_count) ==
    IF move_count = 0 THEN (8 * ValueUnit) \div 10
    ELSE (ExpDecay(move_count - 1) * 9802) \div 10000

\* _calculate_scaled_valuation; winner 0 is None
calculate_scaled_valuation(winner, original_player, move_count) ==
    LET scale_factor == (2 * ValueUnit) \div 10 + ExpDecay(move_count)
    IN  IF winner = 0 THEN 0
        ELSE IF winner = original_player THEN scale_factor
        ELSE -scale_factor

\* The values _simulate can return.  On a terminal state the loop body never
\* runs; otherwise the playout is random, and is modelled by its outcome:
\* a winner (or none) after some further moves.
simulate(game_state, root_player) ==
    LET simulation_game == Pente_clone(game_state)
    IN  IF Pente_is_terminal(simulation_game).terminal
        THEN {calculate_scaled_valuation(Pente_get_winner(simulation_game),
                                         root_player, simulation_game.move_count)}
        ELSE {calculate_scaled_valuation(w, root_player,
                                         simulation_game.move_count + k) :
                  w \in {1, -1, 0}, k \in 1..MaxPlayout}


\* move_priority as [num, den, visits]: the pair (num / den, visits)
move_priority(child, max_iterations) ==
    LET min_visits == Max2(1, max_iterations \div 100)
    IN  IF child.visits = 0 THEN [num |-> 0, den |-> 1, visits |-> 0]
        ELSE IF child.visits >= min_visits
        THEN [num |-> -child.wins, den |-> child.visits, visits |-> child.visits]
        ELSE [num |-> -ValueUnit, den |-> 1, visits |-> child.visits]

\* tuple comparison a < b
PriorityLess(a, b) ==
    \/ a.num * b.den < b.num * a.den
    \/ a.num * b.den = b.num * a.den /\ a.visits < b.visits

\* max(root.children, key=move_priority): the first child no other exceeds
BestRootChild(nodes, max_iterations) ==
    LET kids == nodes[1].children
        Key(k) == move_priority(nodes[kids[k]], max_iterations)
        IsMax(k) == \A j \in 1..Len(kids) : ~PriorityLess(Key(k), Key(j))
    IN  kids[CHOOSE k \in 1..Len(kids) :
                 IsMax(k) /\ \A j \in 1..(k - 1) : ~IsMax(j)]

\* mutant: the two loops over the critical moves are left out
search_critical_statistics(lm, nodes, max_iterations) ==
    {[game |-> lm.game,
      move |-> nodes[BestRootChild(nodes, max_iterations)].move,
      path |-> "statistics"]}

\* search from the critical-move check on, the root having children: the
\* set of [game, move, path] it can end with.  lm is what get_legal_moves
\* returned; ev is the first for loop run to its end; hit holds the moves at
\* which the first and the second loop return.  A loop over legal_moves that
\* returns at its first hit can return any hit, the moves without a hit
\* tried before it.
search_critical(lm, nodes, max_iterations) ==
    UNION {UNION {
      IF hit.wins # {}
      THEN {[game |-> MoveHeuristic_evaluate_moves(
                          lm.game, (lm.moves \ hit.wins) \cup {m}).game,
             move |-> m, path |-> "win"] : m \in hit.wins}
      ELSE IF hit.blocks # {}
      THEN {[game |-> MoveHeuristic_is_blocking_win(
                          MoveHeuristic_evaluate_moves(
                              ev.game, (lm.moves \ hit.blocks) \cup {m}).game,
                          m, -ev.game.current_player).game,
             move |-> m, path |-> "block"] : m \in hit.blocks}
      ELSE {[game |-> MoveHeuristic_evaluate_moves(ev.game, lm.moves).game,
             move |-> nodes[BestRootChild(nodes, max_iterations)].move,
             path |-> "statistics"]}
      : hit \in {[wins |-> {m \in lm.moves :
                              /\ ev.score[m] >= 100
                              /\ MoveHeuristic_is_winning_move(
                                     lm.game, m, lm.game.current_player)},
                  blocks |-> {m \in lm.moves :
                              /\ ev.score[m] >= 100
                              /\ MoveHeuristic_is_blocking_win(
                                     ev.game, m, -ev.game.current_player).result}]}}
      : ev \in {MoveHeuristic_evaluate_moves(lm.game, lm.moves)}}

\* The part of search after the for loop: the set of [game, move, path] it
\* can end with.  game is the caller's object at the return, path names the
\* return statement taken.
search_return(game_state, nodes, max_iterations) ==
    UNION {
      IF nodes[1].children # <<>>
      THEN search_critical(lm, nodes, max_iterations)
      ELSE IF lm.moves = {}
      THEN {[game |-> lm.game, move |-> <<0, 0>>, path |-> "no moves"]}
      ELSE UNION {{[game |-> ev.game, move |-> m, path |-> "fallback"] :
                      m \in TopMoves(lm.moves, ev.score)} :
                  ev \in {MoveHeuristic_evaluate_moves(lm.game, lm.moves)}}
      : lm \in {Pente_get_legal_moves(game_state)}}

(***************************************************************************)
(* A caller builds a Pente position, plays on, and asks a MoveHeuristic    *)
(* for the weight of one legal move (src/tests/test_move_heuristic.py).    *)
(***************************************************************************)
MaxHeuristicPlies == 1

HeuristicStarts ==
    { [board_size |-> 7, captures_to_win |-> 5, tournament_rule |-> TRUE,
       moves |-> <<>>],
      \* four in a row for X (row 2) and a split four for O (row 0)
      [board_size |-> 5, captures_to_win |-> 5, tournament_rule |-> FALSE,
       moves |-> << <<2, 0>>, <<0, 0>>, <<2, 1>>, <<0, 1>>,
                    <<2, 2>>, <<0, 3>>, <<2, 3>>, <<0, 4>> >>],
      \* X at (0,3) captures the pair on row 0 and wins by captures
      [board_size |-> 5, captures_to_win |-> 2, tournament_rule |-> FALSE,
       moves |-> << <<0, 0>>, <<0, 1>>, <<4, 4>>, <<0, 2>> >>],
      \* O at (1,3) would capture the pair on row 1 and win by captures
      [board_size |-> 5, captures_to_win |-> 2, tournament_rule |-> FALSE,
       moves |-> << <<1, 1>>, <<1, 0>>, <<1, 2>>, <<4, 4>> >>] }

HeuristicInit ==
    /\ \E s \in HeuristicStarts :
          pente = Pente_replay(
                      Pente_new(s.board_size, s.captures_to_win, s.tournament_rule),
                      s.moves, 1)
    /\ gcall = [count |-> 0, op |-> "", position |-> <<>>, err |-> "",
                result |-> 0, before |-> <<>>]
    /\ psaved = NotUsed /\ pphase = NotUsed
    /\ gs = NotUsed /\ saved = NotUsed
    /\ sgame = NotUsed /\ sgame0 = NotUsed /\ search = NotUsed
    /\ puct = NotUsed
    /\ bitboard = NotUsed /\ rings = NotUsed
    /\ movegen = NotUsed /\ ringcache = NotUsed
    /\ controller = NotUsed /\ humanplayer = NotUsed
    /\ stored = NotUsed /\ dbwriter = NotUsed

\* the caller plays one of the legal moves
HeuristicMakeMove ==
    /\ gcall.op = ""
    /\ gcall.count < MaxHeuristicPlies
    /\ \E lm \in {Pente_get_legal_moves(pente)} :
       \E m \in lm.moves :
          /\ pente' = Pente_make_move(lm.game, m).game
          /\ gcall' = [gcall EXCEPT !.count = @ + 1]
    /\ UNCHANGED <<gs, saved, psaved, pphase, sgame, sgame0, search, puct, bitboard, rings,
                   movegen, ringcache,
                   controller, humanplayer, stored, dbwriter>>

\* MoveHeuristic(game)._evaluate_move(move) for a legal move
HeuristicEvaluateMove ==
    /\ gcall.op = ""
    /\ \E lm \in {Pente_get_legal_moves(pente)} :
       \E m \in lm.moves :
       \E e \in {MoveHeuristic_evaluate_move(lm.game, m)} :
          /\ pente' = e.game
          /\ gcall' = [gcall EXCEPT !.op = "_evaluate_move", !.position = m,
                                    !.result = e.score, !.before = lm.game]
    /\ UNCHANGED <<gs, saved, psaved, pphase, sgame, sgame0, search, puct, bitboard, rings,
                   movegen, ringcache,
                   controller, humanplayer, stored, dbwriter>>

HeuristicNext == HeuristicMakeMove \/ HeuristicEvaluateMove

SpecHeuristic == HeuristicInit /\ [][HeuristicNext]_vars

\* five stones of player in a row, a column or a diagonal of a Pente board
PenteHasFive(g, player) ==
    \E c \in CellSet(g.board_size) : \E i \in 1..Len(LineDirections) :
        \A k \in 0..4 :
            /\ OnBoard(g.board_size, c[1] + k * LineDirections[i][1],
                       c[2] + k * LineDirections[i][2])
            /\ g.board[<<c[1] + k * LineDirections[i][1],
                         c[2] + k * LineDirections[i][2]>>] = player

\* player, placing a stone on move in g, has won once the stone is placed and
\* its captures are made
WinsImmediately(g, move, player) ==
    LET after == Pente_make_move([g EXCEPT !.current_player = player], move).game
    IN  after.captures[player] >= after.captures_to_win \/ PenteHasFive(after, player)

\* C28: in a game nobody has won yet, _evaluate_move gives a legal move the
\* critical weight 100 exactly when the move wins at once for the side to
\* move or takes a cell on which the opponent would win at once; every other
\* legal move gets less than 100.
C28_CriticalIffWinOrBlock ==
    (gcall.op = "_evaluate_move" /\ Pente_get_winner(gcall.before) = 0)
        => /\ gcall.result = WEIGHTS.critical
                <=> \/ WinsImmediately(gcall.before, gcall.position,
                                       gcall.before.current_player)
                    \/ WinsImmediately(gcall.before, gcall.position,
                                       -gcall.before.current_player)
           /\ gcall.result <= WEIGHTS.critical

\* a cell on which only the opponent would win gets 100, in a game not won
C28_Witness ==
    /\ gcall.op = "_evaluate_move"
    /\ Pente_get_winner(gcall.before) = 0
    /\ gcall.result = WEIGHTS.critical
    /\ ~WinsImmediately(gcall.before, gcall.position, gcall.before.current_player)
    /\ WinsImmediately(gcall.before, gcall.position, -gcall.before.current_player)

(***************************************************************************)
(* A caller builds a Pente position, keeps a copy of it, and runs one      *)
(* MCTS.search on it (src/tests/test_mcts_optimization.py).                *)
(***************************************************************************)
SearchStarts ==
    { [board_size |-> 3, captures_to_win |-> 10, tournament_rule |-> FALSE,
       moves |-> << <<0, 0>>, <<0, 1>>, <<0, 2>>, <<1, 0>>, <<1, 1>>, <<1, 2>>,
                    <<2, 0>> >>],
      \* the player to move wins by capturing at (3, 3)
      [board_size |-> 4, captures_to_win |-> 2, tournament_rule |-> FALSE,
       moves |-> << <<0, 3>>, <<2, 3>>, <<1, 3>>, <<1, 1>>, <<3, 0>>, <<2, 2>>,
                    <<0, 0>>, <<2, 1>>, <<3, 2>>, <<1, 0>> >>],
      \* one empty cell; the move there captures two pairs and play goes on
      [board_size |-> 4, captures_to_win |-> 10, tournament_rule |-> FALSE,
       moves |-> << <<3, 2>>, <<1, 1>>, <<2, 3>>, <<1, 2>>, <<3, 0>>, <<1, 0>>,
                    <<2, 2>>, <<0, 0>>, <<0, 1>>, <<3, 1>>, <<0, 2>>, <<2, 0>>,
                    <<2, 1>>, <<3, 3>>, <<1, 3>> >>],
      \* the same game after that capture: won, with empty cells left
      [board_size |-> 4, captures_to_win |-> 2, tournament_rule |-> FALSE,
       moves |-> << <<0, 3>>, <<2, 3>>, <<1, 3>>, <<1, 1>>, <<3, 0>>, <<2, 2>>,
                    <<0, 0>>, <<2, 1>>, <<3, 2>>, <<1, 0>>, <<3, 3>> >>],
      \* the opponent threatens to win by capturing at (0, 0)
      [board_size |-> 4, captures_to_win |-> 2, tournament_rule |-> FALSE,
       moves |-> << <<0, 3>>, <<3, 0>>, <<1, 2>>, <<3, 2>>, <<3, 3>>, <<2, 2>>,
                    <<2, 0>>, <<3, 1>>, <<1, 0>>, <<0, 2>> >>],
      \* five cells left; X, to move, has four in column 0 and wins at (4, 0)
      [board_size |-> 5, captures_to_win |-> 5, tournament_rule |-> FALSE,
       moves |-> << <<2, 1>>, <<3, 3>>, <<3, 0>>, <<3, 4>>, <<1, 3>>, <<0, 1>>,
                    <<0, 0>>, <<3, 1>>, <<4, 2>>, <<2, 4>>, <<4, 4>>, <<1, 4>>,
                    <<2, 0>>, <<3, 2>>, <<0, 4>>, <<4, 1>>, <<1, 0>>, <<1, 2>>,
                    <<0, 3>>, <<0, 2>> >>],
      \* the same game one move later: O, to move, cannot win; X would at (4, 0)
      [board_size |-> 5, captures_to_win |-> 5, tournament_rule |-> FALSE,
       moves |-> << <<2, 1>>, <<3, 3>>, <<3, 0>>, <<3, 4>>, <<1, 3>>, <<0, 1>>,
                    <<0, 0>>, <<3, 1>>, <<4, 2>>, <<2, 4>>, <<4, 4>>, <<1, 4>>,
                    <<2, 0>>, <<3, 2>>, <<0, 4>>, <<4, 1>>, <<1, 0>>, <<1, 2>>,
                    <<0, 3>>, <<0, 2>>, <<2, 2>> >>],
      \* player 1's second move under the tournament rule, no cell far enough
      [board_size |-> 4, captures_to_win |-> 2, tournament_rule |-> TRUE,
       moves |-> << <<2, 2>>, <<2, 1>> >>],
      \* player 1's second move under the tournament rule
      [board_size |-> 6, captures_to_win |-> 5, tournament_rule |-> TRUE,
       moves |-> << <<5, 1>>, <<5, 2>> >>] }

SearchInit ==
    /\ \E s \in SearchStarts :
          sgame = Pente_replay(Pente_new(s.board_size, s.captures_to_win,
                                         s.tournament_rule), s.moves, 1)
    /\ sgame0 = sgame
    /\ search = [pc |-> "idle", max_iterations |-> 0, iteration |-> 0,
                 root_player |-> 0, nodes |-> <<>>, move |-> <<>>, path |-> ""]
    /\ gs = NotUsed /\ saved = NotUsed
    /\ pente = NotUsed /\ psaved = NotUsed /\ pphase = NotUsed
    /\ puct = NotUsed
    /\ gcall = NotUsed /\ bitboard = NotUsed /\ rings = NotUsed
    /\ movegen = NotUsed /\ ringcache = NotUsed
    /\ controller = NotUsed /\ humanplayer = NotUsed
    /\ stored = NotUsed /\ dbwriter = NotUsed

\* search, up to the for loop: the root is built on the caller's object
SearchCall ==
    /\ search.pc = "idle"
    /\ \E n \in 0..MaxIterations :
       \E root \in {MCTSNode_new(sgame, <<>>, 0)} :
              /\ sgame' = root.game
              /\ search' = [search EXCEPT !.pc = "loop",
                                          !.max_iterations = n,
                                          !.root_player = sgame.current_player,
                                          !.nodes = <<root.node>>]
    /\ UNCHANGED <<gs, saved, pente, psaved, pphase, sgame0, puct, gcall, bitboard, rings,
                   movegen, ringcache,
                   controller, humanplayer, stored, dbwriter>>

\* one pass of the for loop: _select_and_expand, _simulate, backpropagate
SearchIteration ==
    /\ search.pc = "loop"
    /\ search.iteration < search.max_iterations
    /\ \E t \in SelectTargets(search.nodes, 1) :
       \E visited \in {VisitPath(search.nodes, t)} :
          LET expand == ~MCTSNode_is_terminal(visited[t])
                            /\ ~is_fully_expanded(visited[t])
          IN  \E move \in IF expand
                          THEN TopMoves(visited[t].untried_moves, visited[t].score)
                          ELSE {<<>>} :
              \E nodes1 \in {IF expand THEN add_child(visited, t, move)
                                       ELSE visited} :
                 LET leaf == IF expand THEN Len(nodes1) ELSE t
                 IN  \E result \in simulate(nodes1[leaf].game_state,
                                            search.root_player) :
                        search' = [search EXCEPT
                                      !.nodes = backpropagate(nodes1, leaf, result),
                                      !.iteration = @ + 1]
    /\ UNCHANGED <<gs, saved, pente, psaved, pphase, sgame, sgame0, puct, gcall, bitboard, rings,
                   movegen, ringcache,
                   controller, humanplayer, stored, dbwriter>>

\* search, after the for loop
SearchReturn ==
    /\ search.pc = "loop"
    /\ search.iteration = search.max_iterations
    /\ \E r \in search_return(sgame, search.nodes, search.max_iterations) :
          /\ sgame' = r.game
          /\ search' = [search EXCEPT !.pc = "done", !.move = r.move,
                                      !.path = r.path]
    /\ UNCHANGED <<gs, saved, pente, psaved, pphase, sgame0, puct, gcall, bitboard, rings,
                   movegen, ringcache,
                   controller, humanplayer, stored, dbwriter>>

SearchNext == SearchCall \/ SearchIteration \/ SearchReturn

SpecSearch == SearchInit /\ [][SearchNext]_vars


(***************************************************************************)
(* Properties of MCTS.search                                               *)
(***************************************************************************)

\* C3: when search returns, the caller's board, current_player, captures,
\* move_count and move_history are what they were at the call, whatever the
\* iteration budget and whichever return statement was taken.
C3_SearchLeavesStateUnchanged ==
    search.pc = "done" => Pente_view(sgame) = Pente_view(sgame0)

\* a search that returned through the blocking branch of the critical-move
\* check, which works on the caller's object with the player switched
C3_Witness ==
    /\ search.pc = "done"
    /\ search.path = "block"
    /\ search.max_iterations > 0
    /\ Pente_view(sgame) = Pente_view(sgame0)

\* C8: from a state with at least one legal move, search returns one of the
\* legal moves of that state, for every iteration budget from 0 up.
C8_SearchReturnsLegalMove ==
    (search.pc = "done" /\ Pente_get_legal_moves(sgame0).moves # {})
        => search.move \in Pente_get_legal_moves(sgame0).moves

\* a statistics-based return from a position where the tournament rule makes
\* some empty cells illegal
C8_Witness ==
    /\ search.pc = "done"
    /\ search.path = "statistics"
    /\ Pente_get_legal_moves(sgame0).moves # sgame0.legal_moves_cache
    /\ search.move \in Pente_get_legal_moves(sgame0).moves

\* C15: search invoked on a state with zero legal moves fails (with a
\* NoLegalMovesError); it never returns a move for such a state.  In the
\* model a raised error would leave search.pc at "loop", so the statement is
\* that no search from a state without legal moves reaches "done".
C15_NoMoveWithoutLegalMoves ==
    ~(search.pc = "done" /\ Pente_get_legal_moves(sgame0).moves = {})

\* the legal moves of g with which player would win at once
WinningCells(g, player) ==
    {m \in Pente_get_legal_moves(g).moves : WinsImmediately(g, m, player)}

\* C29: search with max_iterations >= 1 on a position that is not terminal
\* returns a move that wins at once when the side to move has one; when it
\* has none and some legal move takes a cell on which the opponent would win
\* at once, it returns such a move, whatever the simulations gave.
C29_WinOrBlockReturned ==
    (/\ search.pc = "done"
     /\ search.max_iterations >= 1
     /\ ~Pente_is_terminal(sgame0).terminal)
        => IF WinningCells(sgame0, sgame0.current_player) # {}
           THEN search.move \in WinningCells(sgame0, sgame0.current_player)
           ELSE WinningCells(sgame0, -sgame0.current_player) # {}
                   => search.move \in WinningCells(sgame0, -sgame0.current_player)

\* the side to move cannot win at once, the opponent could, and the search
\* returns the opponent's winning cell
C29_Witness ==
    /\ search.pc = "done"
    /\ search.max_iterations >= 1
    /\ ~Pente_is_terminal(sgame0).terminal
    /\ WinningCells(sgame0, sgame0.current_player) = {}
    /\ search.move \in WinningCells(sgame0, -sgame0.current_player)

Sign(x) == IF x > 0 THEN 1 ELSE IF x < 0 THEN -1 ELSE 0

\* visits and wins of node k before a step that may have created it
OldVisits(k) == IF k <= Len(search.nodes) THEN search.nodes[k].visits ELSE 0

OldWins(k) == IF k <= Len(search.nodes) THEN search.nodes[k].wins ELSE 0

\* C31: every simulation result added to a node's wins is seen from one
\* fixed player, the one who made the move leading to the node, whatever the
\* depth of the leaf the simulation started from.  For a child of the root
\* that player is the root player: in every iteration the wins of the root
\* child on the path move in the direction of the result (positive for a win
\* of the root player), which is the value the leaf itself receives.
C31_OnePerspectivePerNode ==
    [][(search.pc = "loop" /\ search'.iteration = search.iteration + 1) =>
         LET nodes2  == search'.nodes
             Touched == {k \in 1..Len(nodes2) : nodes2[k].visits # OldVisits(k)}
             leaf    == CHOOSE k \in Touched :
                            \A c \in Touched : nodes2[c].parent # k
             result  == nodes2[leaf].wins - OldWins(leaf)
         IN  \A k \in Touched :
                nodes2[k].parent = 1
                    => Sign(nodes2[k].wins - OldWins(k)) = Sign(result)]_vars

\* the visits of the nodes listed in children, added up
RECURSIVE ChildrenVisits(_, _)
ChildrenVisits(nodes, children) ==
    IF children = <<>> THEN 0
    ELSE nodes[Head(children)].visits + ChildrenVisits(nodes, Tail(children))

\* C40: after n completed iterations of search the root has n visits, and
\* every node of the tree has at least as many visits as its children
\* together.
C40_VisitsAddUp ==
    search.nodes # <<>> =>
        /\ search.nodes[1].visits = search.iteration
        /\ \A i \in 1..Len(search.nodes) :
              search.nodes[i].visits
                  >= ChildrenVisits(search.nodes, search.nodes[i].children)

\* two iterations are done and a node below the root has a child of its own
C40_Witness ==
    /\ search.iteration = 2
    /\ search.nodes[1].visits = 2
    /\ \E i \in 2..Len(search.nodes) :
          /\ search.nodes[i].children # <<>>
          /\ ChildrenVisits(search.nodes, search.nodes[i].children) >= 1


(***************************************************************************)
(* The function-style game (v1/game.py) that the PUCT tree is built on.    *)
(* A board is a function from cells to 1, -1 and 0; every node sees the    *)
(* stones it counts as its own as 1.  BOARD_SIZE is square and is given by *)
(* its side.  None is PyNone.                                              *)
(***************************************************************************)
PyNone == <<>>

game_get_legal_moves(board, size, num_moves, tournament_rules_enabled) ==
    IF num_moves = 0
    THEN << <<size \div 2, size \div 2>> >>
    ELSE IF num_moves = 2 /\ tournament_rules_enabled
    THEN SelectSeq(RowMajor(size),
                   LAMBDA c : /\ \/ Abs(c[1] - size \div 2) >= 3
                                 \/ Abs(c[2] - size \div 2) >= 3
                              /\ board[c] = 0)
    ELSE SelectSeq(RowMajor(size), LAMBDA c : board[c] = 0)

game_make_move(move, board, player) ==
    IF board[move] # 0
    THEN [err |-> "ValueError", board |-> board]
    ELSE [err |-> "", board |-> [board EXCEPT ![move] = player]]

game_directions == << <<1, 0>>, <<0, 1>>, <<1, 1>>, <<1, -1>> >>

\* one while loop of check_n_in_a_row, entered with the running count
RECURSIVE game_count_run(_, _, _, _, _, _, _, _, _)
game_count_run(board, size, nx, ny, dx, dy, count, connect_n, current_player) ==
    IF OnBoard(size, nx, ny) /\ board[<<nx, ny>>] = current_player
    THEN IF count + 1 = connect_n
         THEN [count |-> count + 1, hit |-> TRUE]
         ELSE game_count_run(board, size, nx + dx, ny + dy, dx, dy, count + 1,
                             connect_n, current_player)
    ELSE [count |-> count, hit |-> FALSE]

game_check_n_in_a_row(move, board, size, connect_n, current_player) ==
    \E i \in 1..Len(game_directions) :
        LET dx == game_directions[i][1]
            dy == game_directions[i][2]
            fwd == game_count_run(board, size, move[1] + dx, move[2] + dy,
                                  dx, dy, 1, connect_n, current_player)
        IN  \/ fwd.hit
            \/ game_count_run(board, size, move[1] - dx, move[2] - dy,
                              -dx, -dy, fwd.count, connect_n,
                              current_player).hit

game_is_game_over(move, board, size, player_captures, connect_n, num_moves) ==
    IF move = PyNone
    THEN FALSE
    ELSE \/ game_check_n_in_a_row(move, board, size, connect_n, 1)
         \/ player_captures >= 5
         \/ num_moves = size * size

\* calculate_score in units of 1/ValueUnit (rounded down); the division is by
\* zero on a 3 x 3 board
game_calculate_score(num_moves, size) ==
    IF num_moves = size * size
    THEN [err |-> "", score |-> 0]
    ELSE IF size * size = 5 * 2 - 1
    THEN [err |-> "ZeroDivisionError", score |-> 0]
    ELSE [err |-> "",
          score |-> (ValueUnit \div 10)
                      + ((ValueUnit - ValueUnit \div 10)
                           * ((size * size - (5 * 2 - 1))
                                - (num_moves - (5 * 2 - 1))))
                        \div (size * size - (5 * 2 - 1))]

(***************************************************************************)
(* The PUCT tree (src/mcts.py).  A tree is a sequence of nodes; a node     *)
(* names its parent and its children by their index, 0 is None.  children  *)
(* is the dict in insertion order (the key of a child is its prev_move).   *)
(* cfg holds the settings read from settings.json.  The puct, exploration  *)
(* and exploitation fields only cache the last score and are left out.     *)
(***************************************************************************)
Puct_MCTSNode_new(cfg, nodes, board, policy_prior, player_captures, opponent_captures, num_moves, prev_move, parent) ==
    CHOOSE r \in
      {IF mv.err # ""
       THEN [err |-> mv.err, node |-> PyNone]
       ELSE (CHOOSE q \in
         {IF over /\ game_calculate_score(num_moves, cfg.BOARD_SIZE).err # ""
          THEN [err |-> game_calculate_score(num_moves, cfg.BOARD_SIZE).err,
                node |-> PyNone]
          ELSE [err |-> "",
                node |->
                  [board |-> mv.board,
                   prev_move |-> prev_move,
                   policy_prior |-> policy_prior,
                   player_captures |-> player_captures,
                   opponent_captures |-> opponent_captures,
                   num_moves |-> num_moves,
                   parent |-> parent,
                   children |-> <<>>,
                   num_visits |-> 0,
                   is_terminal |-> over,
                   untried_moves |->
                       IF ~over
                       THEN game_get_legal_moves(mv.board, cfg.BOARD_SIZE,
                                num_moves, cfg.TOURNAMENT_RULES_ENABLED)
                       ELSE <<>>,
                   value |->
                       IF over
                       THEN game_calculate_score(num_moves,
                                                 cfg.BOARD_SIZE).score
                       ELSE PyNone,
                   total_value |-> 0,
                   turn |-> IF parent # 0 THEN -nodes[parent].turn ELSE 1]] :
            over \in {game_is_game_over(prev_move, mv.board, cfg.BOARD_SIZE,
                                        player_captures, cfg.CONNECT_N,
                                        num_moves)}} : TRUE) :
         mv \in {IF prev_move # PyNone
                 THEN game_make_move(prev_move, [c \in DOMAIN board |-> -board[c]], 1)
                 ELSE [err |-> "", board |-> [c \in DOMAIN board |-> -board[c]]]}} :
      TRUE

Puct_is_fully_expanded(node) == Len(node.untried_moves) = 0

\* mutant: an unvisited child gets no preference
Puct_best_child_any(nodes, node) ==
    IF Len(nodes[node].children) = 0 THEN {0}
    ELSE Range(nodes[node].children)

\* best_child(greedy=False): the indices it can return, 0 for None.  An
\* unvisited child scores +inf and a later +inf does not replace it, so the
\* first unvisited child wins; among visited children the PUCT scores are
\* floating-point values and any child may be the largest.
Puct_best_child(nodes, node) ==
    LET ch == nodes[node].children
        unvisited == {j \in 1..Len(ch) : nodes[ch[j]].num_visits = 0}
    IN  IF Len(ch) = 0 THEN {0}
        ELSE IF unvisited # {}
        THEN {ch[CHOOSE j \in unvisited : \A l \in unvisited : j <= l]}
        ELSE Range(ch)

\* what the PUCT scores of the children of a node are computed from
\* (get_puct reads total_value, num_visits and policy_prior of the child and
\* num_visits of the parent), in the order best_child compares them
PuctKey(nodes, node) ==
    <<nodes[node].num_visits,
      [j \in 1..Len(nodes[node].children) |->
          <<nodes[nodes[node].children[j]].total_value,
            nodes[nodes[node].children[j]].num_visits,
            nodes[nodes[node].children[j]].policy_prior>>]>>

\* the position, among the children of a node, of the children best_child
\* can return: get_puct is a function of PuctKey, so where the scores of
\* these statistics have been compared before (favoured holds the pairs
\* <<key, position>> of the comparisons made so far) the outcome is the same
Puct_best_position(nodes, node, favoured) ==
    IF \E f \in favoured : f[1] = PuctKey(nodes, node)
    THEN {f[2] : f \in {g \in favoured : g[1] = PuctKey(nodes, node)}}
    ELSE {j \in 1..Len(nodes[node].children) :
             nodes[node].children[j] \in Puct_best_child(nodes, node)}

\* mutant: the scores are not a function of the statistics (noise is added)
RECURSIVE selection_noisy(_, _, _)
selection_noisy(nodes, node, favoured) ==
    IF node = 0 THEN {[leaf |-> 0, favoured |-> favoured]}
    ELSE IF Puct_is_fully_expanded(nodes[node]) /\ ~nodes[node].is_terminal
    THEN IF Len(nodes[node].children) = 0
         THEN {[leaf |-> 0, favoured |-> favoured]}
         ELSE UNION {selection_noisy(nodes, c, favoured) :
                        c \in Puct_best_child(nodes, node)}
    ELSE {[leaf |-> node, favoured |-> favoured]}

\* selection: the nodes it can return, with the comparisons made on the
\* way; leaf is 0 when best_child returned None and the loop condition
\* raises AttributeError
RECURSIVE selection(_, _, _)
selection(nodes, node, favoured) ==
    IF node = 0 THEN {[leaf |-> 0, favoured |-> favoured]}
    ELSE IF Puct_is_fully_expanded(nodes[node]) /\ ~nodes[node].is_terminal
    THEN IF Len(nodes[node].children) = 0
         THEN {[leaf |-> 0, favoured |-> favoured]}
         ELSE UNION {selection(nodes, nodes[node].children[j],
                               favoured \cup {<<PuctKey(nodes, node), j>>}) :
                        j \in Puct_best_position(nodes, node, favoured)}
    ELSE {[leaf |-> node, favoured |-> favoured]}

\* list.remove(x): drops the first element equal to x
RECURSIVE ListRemove(_, _)
ListRemove(list, x) ==
    IF list = <<>> THEN <<>>
    ELSE IF Head(list) = x THEN Tail(list)
    ELSE <<Head(list)>> \o ListRemove(Tail(list), x)

\* the for loop of expansion over node.untried_moves: the list iterator is
\* at position i (from 1) of the list as it is now, child_node is the last
\* child built (0 before the first)
RECURSIVE expansion_loop(_, _, _, _, _, _)
expansion_loop(cfg, nodes, node, policy_priors, i, child_node) ==
    IF i > Len(nodes[node].untried_moves)
    THEN [err |-> IF child_node = 0 THEN "UnboundLocalError" ELSE "",
          nodes |-> nodes, child_node |-> child_node]
    ELSE
      CHOOSE r \in
        {IF new.err # ""
         THEN [err |-> new.err, nodes |-> nodes, child_node |-> child_node]
         ELSE expansion_loop(
                cfg,
                Append([nodes EXCEPT
                          ![node].children = Append(@, Len(nodes) + 1),
                          ![node].untried_moves =
                              ListRemove(@, nodes[node].untried_moves[i])],
                       new.node),
                node, policy_priors, i + 1, Len(nodes) + 1) :
           new \in {Puct_MCTSNode_new(
                      cfg, nodes, nodes[node].board,
                      policy_priors[nodes[node].untried_moves[i][1] * cfg.BOARD_SIZE
                                      + nodes[node].untried_moves[i][2]],
                      nodes[node].player_captures,
                      nodes[node].opponent_captures,
                      nodes[node].num_moves + 1,
                      nodes[node].untried_moves[i],
                      node)}} : TRUE

\* expansion; policy_priors is what get_policy_priors returned (it is asked
\* for only when the node is not terminal)
expansion(cfg, nodes, node, policy_priors) ==
    IF nodes[node].is_terminal
    THEN [err |-> "", nodes |-> nodes, child_node |-> node]
    ELSE expansion_loop(cfg, nodes, node, policy_priors, 1, 0)

\* the while loop of backpropagation
RECURSIVE backpropagation_loop(_, _, _, _)
backpropagation_loop(nodes, node, value, player) ==
    IF node = 0
    THEN nodes
    ELSE backpropagation_loop(
           [nodes EXCEPT
              ![node].num_visits = @ + 1,
              ![node].total_value =
                  @ + value * (IF player # nodes[node].turn THEN -1 ELSE 1)],
           nodes[node].parent, value, player)

\* mutant: the value is added with the same sign at every level
RECURSIVE backpropagation_same_sign(_, _, _)
backpropagation_same_sign(nodes, node, value) ==
    IF node = 0
    THEN nodes
    ELSE backpropagation_same_sign(
           [nodes EXCEPT ![node].num_visits = @ + 1,
                         ![node].total_value = @ + value],
           nodes[node].parent, value)

backpropagation(nodes, node, value) ==
    backpropagation_loop(nodes, node, value, nodes[node].turn)

(***************************************************************************)
(* MCTS.run, one step per phase of a simulation.  The evaluator            *)
(* (model.predict) is an input: each call answers with one of the policies *)
(* of PolicyTables and one of the values of ModelValues.  predict_calls    *)
(* lists the nodes whose boards the evaluator was called with.             *)
(***************************************************************************)
MaxSimulations == 4     \* largest number of simulations a run is given

\* policies, in units of 1/(sum of the entries), indexed like the flat
\* policy vector
PolicyTables(size) ==
    { [i \in 0..(size * size - 1) |-> i + 1],
      [i \in 0..(size * size - 1) |-> size * size - i] }

\* values, in units of 1/ValueUnit
ModelValues == {-(ValueUnit \div 2), ValueUnit \div 4}

\* the evaluators a search is run with: "free" answers every call with any
\* policy and any value, the others are deterministic functions of the board
\* they are called with
Models == {"free", "constant", "by board"}

\* the policies model.predict can answer a call with
predict_policy(model, board, size) ==
    IF model = "free" THEN PolicyTables(size)
    ELSE IF model = "constant" THEN {[i \in 0..(size * size - 1) |-> i + 1]}
    ELSE IF Cardinality({c \in DOMAIN board : board[c] = 1}) % 2 = 0
    THEN {[i \in 0..(size * size - 1) |-> i + 1]}
    ELSE {[i \in 0..(size * size - 1) |-> size * size - i]}

\* the values model.predict can answer a call with
predict_value(model, board) ==
    IF model = "free" THEN ModelValues
    ELSE IF model = "constant" THEN {ValueUnit \div 4}
    ELSE IF Cardinality({c \in DOMAIN board : board[c] = -1}) % 2 = 0
    THEN {-(ValueUnit \div 2)}
    ELSE {ValueUnit \div 4}

BoardOf(rows) ==
    [c \in CellSet(Len(rows)) |-> rows[c[1] + 1][c[2] + 1]]

\* MCTS(model, simulations, random=...): the probability of a random move, in
\* units of 1/ValueUnit (0.0 is the default, generate.py passes 0.3)
RandomSettings == {0, (3 * ValueUnit) \div 10}

\* settings and arguments of run
PuctStarts ==
    { \* three empty cells
      [BOARD_SIZE |-> 4, CONNECT_N |-> 4, TOURNAMENT_RULES_ENABLED |-> FALSE,
       player_captures |-> 0, opponent_captures |-> 0,
       board |-> BoardOf(<< <<0, 0, 0, -1>>, <<-1, 1, -1, 1>>,
                            <<-1, 1, -1, 1>>, <<1, -1, 1, -1>> >>)],
      \* one empty cell: the only child fills the board
      [BOARD_SIZE |-> 4, CONNECT_N |-> 4, TOURNAMENT_RULES_ENABLED |-> FALSE,
       player_captures |-> 0, opponent_captures |-> 0,
       board |-> BoardOf(<< <<0, -1, 1, -1>>, <<-1, 1, -1, 1>>,
                            <<-1, 1, -1, 1>>, <<1, -1, 1, -1>> >>)],
      \* two empty cells, (0, 3) completes four in a row
      [BOARD_SIZE |-> 4, CONNECT_N |-> 4, TOURNAMENT_RULES_ENABLED |-> FALSE,
       player_captures |-> 0, opponent_captures |-> 0,
       board |-> BoardOf(<< <<1, 1, 1, 0>>, <<-1, -1, 1, -1>>,
                            <<-1, 1, -1, 1>>, <<1, -1, -1, 0>> >>)],
      \* the empty board: the centre is the only move
      [BOARD_SIZE |-> 4, CONNECT_N |-> 4, TOURNAMENT_RULES_ENABLED |-> FALSE,
       player_captures |-> 0, opponent_captures |-> 0,
       board |-> BoardOf(<< <<0, 0, 0, 0>>, <<0, 0, 0, 0>>,
                            <<0, 0, 0, 0>>, <<0, 0, 0, 0>> >>)],
      \* third move under the tournament rule on a board without a cell
      \* three away from the centre
      [BOARD_SIZE |-> 4, CONNECT_N |-> 4, TOURNAMENT_RULES_ENABLED |-> TRUE,
       player_captures |-> 0, opponent_captures |-> 0,
       board |-> BoardOf(<< <<0, 0, 0, 0>>, <<0, 0, 0, 0>>,
                            <<0, -1, 1, 0>>, <<0, 0, 0, 0>> >>)],
      \* five captures: every child is terminal
      [BOARD_SIZE |-> 4, CONNECT_N |-> 4, TOURNAMENT_RULES_ENABLED |-> FALSE,
       player_captures |-> 5, opponent_captures |-> 0,
       board |-> BoardOf(<< <<0, 0, 1, -1>>, <<-1, 1, -1, 1>>,
                            <<-1, 1, -1, 1>>, <<1, -1, 1, -1>> >>)],
      \* 3 x 3, (0, 2) completes three in a row
      [BOARD_SIZE |-> 3, CONNECT_N |-> 3, TOURNAMENT_RULES_ENABLED |-> FALSE,
       player_captures |-> 0, opponent_captures |-> 0,
       board |-> BoardOf(<< <<1, 1, 0>>, <<-1, -1, 0>>, <<0, 0, 0>> >>)] }

PuctInit ==
    /\ \E s \in PuctStarts :
          puct = [pc |-> "idle", cfg |-> s, simulations |-> 0, completed |-> 0,
                  nodes |-> <<>>, leaf |-> 0, child_node |-> 0, result |-> 0,
                  policy_priors |-> PyNone, predict_calls |-> <<>>, err |-> "",
                  random |-> 0, move |-> PyNone, policy |-> PyNone,
                  random_branch |-> FALSE, model |-> "free",
                  favoured |-> {}, calls |-> 0, first_move |-> PyNone]
    /\ gs = NotUsed /\ saved = NotUsed
    /\ pente = NotUsed /\ psaved = NotUsed /\ pphase = NotUsed
    /\ sgame = NotUsed /\ sgame0 = NotUsed /\ search = NotUsed
    /\ gcall = NotUsed /\ bitboard = NotUsed /\ rings = NotUsed
    /\ movegen = NotUsed /\ ringcache = NotUsed
    /\ controller = NotUsed /\ humanplayer = NotUsed
    /\ stored = NotUsed /\ dbwriter = NotUsed

\* run, up to the for loop: the root node
PuctRun ==
    /\ puct.pc = "idle"
    /\ \E n \in 0..MaxSimulations :
       \E rnd \in RandomSettings :
       \E model \in Models :
       \E root \in {Puct_MCTSNode_new(
                      puct.cfg, <<>>, puct.cfg.board, PyNone,
                      puct.cfg.player_captures, puct.cfg.opponent_captures,
                      Cardinality({c \in DOMAIN puct.cfg.board :
                                      puct.cfg.board[c] # 0}),
                      PyNone, 0)} :
          puct' = [puct EXCEPT !.pc = IF n = 0 THEN "done" ELSE "selection",
                               !.simulations = n,
                               !.random = rnd,
                               !.model = model,
                               !.calls = 1,
                               !.nodes = <<root.node>>]
    /\ UNCHANGED <<gs, saved, pente, psaved, pphase, sgame, sgame0, search, gcall, bitboard, rings,
                   movegen, ringcache,
                   controller, humanplayer, stored, dbwriter>>

\* 1.) SELECTION
PuctSelection ==
    /\ puct.pc = "selection"
    /\ \E r \in selection(puct.nodes, 1, puct.favoured) :
          puct' = IF r.leaf = 0
                  THEN [puct EXCEPT !.pc = "raised", !.err = "AttributeError"]
                  ELSE [puct EXCEPT !.pc = "expansion", !.leaf = r.leaf,
                                    !.favoured = r.favoured]
    /\ UNCHANGED <<gs, saved, pente, psaved, pphase, sgame, sgame0, search, gcall, bitboard, rings,
                   movegen, ringcache,
                   controller, humanplayer, stored, dbwriter>>

\* 2.) EXPANSION
PuctExpansion ==
    /\ puct.pc = "expansion"
    /\ IF puct.nodes[puct.leaf].is_terminal
       THEN puct' = [puct EXCEPT !.pc = "rollout", !.child_node = puct.leaf]
       ELSE \E policy \in predict_policy(puct.model, puct.nodes[puct.leaf].board,
                                         puct.cfg.BOARD_SIZE) :
            \E r \in {expansion(puct.cfg, puct.nodes, puct.leaf, policy)} :
               puct' = [puct EXCEPT
                          !.pc = IF r.err # "" THEN "raised" ELSE "rollout",
                          !.err = r.err,
                          !.nodes = r.nodes,
                          !.child_node = r.child_node,
                          !.policy_priors = policy,
                          !.predict_calls = Append(@, puct.leaf)]
    /\ UNCHANGED <<gs, saved, pente, psaved, pphase, sgame, sgame0, search, gcall, bitboard, rings,
                   movegen, ringcache,
                   controller, humanplayer, stored, dbwriter>>

\* rollout: the value of a terminal node, the evaluator's value otherwise
rollout(node, model_value) ==
    IF node.is_terminal THEN node.value ELSE model_value

\* 3.) SIMULATION
PuctRollout ==
    /\ puct.pc = "rollout"
    /\ IF puct.nodes[puct.child_node].is_terminal
       THEN puct' = [puct EXCEPT
                       !.pc = "backpropagation",
                       !.result = rollout(puct.nodes[puct.child_node], 0)]
       ELSE \E v \in predict_value(puct.model,
                                    puct.nodes[puct.child_node].board) :
               puct' = [puct EXCEPT
                          !.pc = "backpropagation",
                          !.result = rollout(puct.nodes[puct.child_node], v),
                          !.predict_calls = Append(@, puct.child_node)]
    /\ UNCHANGED <<gs, saved, pente, psaved, pphase, sgame, sgame0, search, gcall, bitboard, rings,
                   movegen, ringcache,
                   controller, humanplayer, stored, dbwriter>>

\* 4.) BACKPROPAGATION, and the end of one pass of the for loop
PuctBackpropagation ==
    /\ puct.pc = "backpropagation"
    /\ puct' = [puct EXCEPT
                  !.pc = IF puct.completed + 1 < puct.simulations
                         THEN "selection" ELSE "done",
                  !.completed = @ + 1,
                  !.nodes = backpropagation(puct.nodes, puct.child_node,
                                            puct.result)]
    /\ UNCHANGED <<gs, saved, pente, psaved, pphase, sgame, sgame0, search, gcall, bitboard, rings,
                   movegen, ringcache,
                   controller, humanplayer, stored, dbwriter>>

\* sum(...) over a list of numbers
RECURSIVE SeqSum(_)
SeqSum(list) == IF Len(list) = 0 THEN 0 ELSE Head(list) + SeqSum(Tail(list))

\* mutant: the first child, whatever its visit count
Puct_best_child_greedy_first(nodes, node) ==
    IF Len(nodes[node].children) = 0 THEN 0 ELSE nodes[node].children[1]

\* best_child(greedy=True): the first child, in dict order, with the largest
\* num_visits; 0 (None) without children
Puct_best_child_greedy(nodes, node) ==
    LET ch == nodes[node].children
    IN  IF Len(ch) = 0 THEN 0
        ELSE ch[CHOOSE j \in 1..Len(ch) :
                   /\ \A l \in 1..Len(ch) :
                         nodes[ch[l]].num_visits <= nodes[ch[j]].num_visits
                   /\ \A l \in 1..(j - 1) :
                         nodes[ch[l]].num_visits < nodes[ch[j]].num_visits]

\* np.zeros((BOARD_SIZE[0], BOARD_SIZE[1])); an entry is a fraction <<n, d>>
ZeroPolicy(size) == [c \in CellSet(size) |-> <<0, 1>>]

\* mutant: the visit counts are not divided by their sum
best_move_policy_counts(size, nodes) ==
    [c \in CellSet(size) |->
        IF \E k \in Range(nodes[1].children) : nodes[k].prev_move = c
        THEN <<nodes[CHOOSE k \in Range(nodes[1].children) :
                         nodes[k].prev_move = c].num_visits, 1>>
        ELSE <<0, 1>>]

\* the policy of best_move: visits / total_visits at the move of every
\* visited root child, as the fraction <<visits, total_visits>>
best_move_policy(size, nodes) ==
    LET moves_visits == SelectSeq(nodes[1].children,
                                  LAMBDA c : nodes[c].num_visits > 0)
        total_visits == SeqSum([j \in 1..Len(moves_visits) |->
                                   nodes[moves_visits[j]].num_visits])
    IN  IF total_visits > 0
        THEN [c \in CellSet(size) |->
                IF \E j \in 1..Len(moves_visits) :
                       nodes[moves_visits[j]].prev_move = c
                THEN <<nodes[CHOOSE k \in Range(moves_visits) :
                                 nodes[k].prev_move = c].num_visits,
                       total_visits>>
                ELSE <<0, 1>>]
        ELSE ZeroPolicy(size)

\* best_move after run has returned the root: what it can return or raise.
\* draw is the outcome of random.random() < self.random.
best_move(cfg, random, draw, nodes) ==
    IF random # 0 /\ draw
    THEN LET legal_moves == game_get_legal_moves(cfg.board, cfg.BOARD_SIZE,
                                nodes[1].num_moves,
                                cfg.TOURNAMENT_RULES_ENABLED)
         IN  IF Len(legal_moves) > 0
             THEN {[err |-> "", move |-> m, policy |-> ZeroPolicy(cfg.BOARD_SIZE),
                    random_branch |-> TRUE] : m \in Range(legal_moves)}
             ELSE {[err |-> "ValueError", move |-> PyNone, policy |-> PyNone,
                    random_branch |-> TRUE]}
    ELSE LET best == Puct_best_child_greedy(nodes, 1)
         IN  IF best = 0
             THEN {[err |-> "AttributeError", move |-> PyNone,
                    policy |-> PyNone, random_branch |-> FALSE]}
             ELSE {[err |-> "", move |-> nodes[best].prev_move,
                    policy |-> best_move_policy(cfg.BOARD_SIZE, nodes),
                    random_branch |-> FALSE]}

\* best_move, from the return of run on
PuctBestMove ==
    /\ puct.pc = "done"
    /\ \E draw \in IF puct.random # 0 THEN BOOLEAN ELSE {FALSE} :
       \E r \in best_move(puct.cfg, puct.random, draw, puct.nodes) :
          puct' = [puct EXCEPT
                     !.pc = IF r.err # "" THEN "raised" ELSE "returned",
                     !.err = r.err,
                     !.move = r.move,
                     !.policy = r.policy,
                     !.random_branch = r.random_branch]
    /\ UNCHANGED <<gs, saved, pente, psaved, pphase, sgame, sgame0, search, gcall, bitboard, rings,
                   movegen, ringcache,
                   controller, humanplayer, stored, dbwriter>>

\* a second call of best_move on the same MCTS object, with the same board
\* and capture counts, after the first call has returned (the driver makes
\* it when the evaluator is deterministic)
PuctCallAgain ==
    /\ puct.pc = "returned"
    /\ puct.calls = 1
    /\ puct.model # "free"
    /\ \E root \in {Puct_MCTSNode_new(
                      puct.cfg, <<>>, puct.cfg.board, PyNone,
                      puct.cfg.player_captures, puct.cfg.opponent_captures,
                      Cardinality({c \in DOMAIN puct.cfg.board :
                                      puct.cfg.board[c] # 0}),
                      PyNone, 0)} :
          puct' = [puct EXCEPT
                     !.pc = IF puct.simulations = 0 THEN "done" ELSE "selection",
                     !.calls = 2,
                     !.first_move = puct.move,
                     !.completed = 0,
                     !.nodes = <<root.node>>,
                     !.leaf = 0, !.child_node = 0, !.result = 0,
                     !.policy_priors = PyNone, !.predict_calls = <<>>,
                     !.move = PyNone, !.policy = PyNone,
                     !.random_branch = FALSE]
    /\ UNCHANGED <<gs, saved, pente, psaved, pphase, sgame, sgame0, search, gcall, bitboard, rings,
                   movegen, ringcache,
                   controller, humanplayer, stored, dbwriter>>

PuctNext ==
    PuctRun \/ PuctSelection \/ PuctExpansion \/ PuctRollout
        \/ PuctBackpropagation \/ PuctBestMove \/ PuctCallAgain

SpecPuct == PuctInit /\ [][PuctNext]_vars


(***************************************************************************)
(* Properties of the PUCT tree                                             *)
(***************************************************************************)

\* C9: an expansion of a non-terminal node that has no children yet and k
\* untried moves leaves the node with exactly k children, one per untried
\* move, each carrying policy_priors[move index], and with untried_moves
\* empty, after one call of the evaluator, made for that node.
C9_ExpansionCreatesAllChildren ==
    [][(/\ puct.pc = "expansion"
        /\ puct'.pc = "rollout"
        /\ ~puct.nodes[puct.leaf].is_terminal
        /\ puct.nodes[puct.leaf].children = <<>>)
       => LET before == puct.nodes[puct.leaf]
              after == puct'.nodes[puct.leaf]
              size == puct.cfg.BOARD_SIZE
          IN  /\ Len(after.children) = Len(before.untried_moves)
              /\ \A m \in Range(before.untried_moves) :
                    \E c \in Range(after.children) :
                        /\ puct'.nodes[c].prev_move = m
                        /\ puct'.nodes[c].parent = puct.leaf
                        /\ puct'.nodes[c].policy_prior
                              = puct'.policy_priors[m[1] * size + m[2]]
              /\ Puct_is_fully_expanded(after)
              /\ puct'.predict_calls = Append(puct.predict_calls, puct.leaf)
      ]_vars

\* the nodes from a node up the parent links, the node included
RECURSIVE PathToRoot(_, _)
PathToRoot(nodes, node) ==
    IF node = 0 THEN {} ELSE {node} \cup PathToRoot(nodes, nodes[node].parent)

\* C10: backpropagation from a node adds 1 to num_visits of every node on
\* the parent path of that node, root included, and to no other; it adds the
\* value to total_value of the path nodes whose turn is the leaf's and
\* subtracts it from the others, and turn alternates from one level of the
\* path to the next; all other nodes keep their total_value.
C10_BackpropagationUpdatesPath ==
    [][(puct.pc = "backpropagation" /\ puct'.pc # "backpropagation")
       => LET leaf == puct.child_node
              path == PathToRoot(puct.nodes, leaf)
          IN  /\ 1 \in path
              /\ Len(puct'.nodes) = Len(puct.nodes)
              /\ \A j \in path \ {1} :
                    puct.nodes[j].turn = -puct.nodes[puct.nodes[j].parent].turn
              /\ \A j \in 1..Len(puct.nodes) :
                    IF j \in path
                    THEN puct'.nodes[j] =
                           [puct.nodes[j] EXCEPT
                              !.num_visits = @ + 1,
                              !.total_value =
                                  IF puct.nodes[j].turn = puct.nodes[leaf].turn
                                  THEN @ + puct.result
                                  ELSE @ - puct.result]
                    ELSE puct'.nodes[j] = puct.nodes[j]
      ]_vars

\* a backpropagation of a non-zero value has just run from a node two levels
\* below the root, in a tree that has nodes off the path
C10_Witness ==
    /\ puct.pc \in {"selection", "done"}
    /\ puct.completed > 0
    /\ puct.result # 0
    /\ puct.nodes[puct.child_node].parent > 1
    /\ Len(puct.nodes) > Cardinality(PathToRoot(puct.nodes, puct.child_node))
    /\ \A j \in PathToRoot(puct.nodes, puct.child_node) :
          puct.nodes[j].num_visits > 0

\* the same walk in the tree of the heuristic search (mcts/mcts.py)
RECURSIVE SearchPathToRoot(_, _)
SearchPathToRoot(nodes, node) ==
    IF node = 0 THEN {}
    ELSE {node} \cup SearchPathToRoot(nodes, nodes[node].parent)

\* C10 for MCTSNode.backpropagate, the second implementation: one pass of
\* the search loop ends with a backpropagation from its leaf (the child just
\* added, or the node selection stopped at).  Along the parent path of the
\* leaf, root included, visits grows by 1 and wins by the result, with the
\* sign of the leaf where the side to move is the leaf's and the opposite
\* sign elsewhere; no other node changes its visits or wins.
C10_BackpropagateUpdatesPath ==
    [][(search.pc = "loop" /\ search'.pc = "loop")
       => \E leaf \in 1..Len(search'.nodes) :
            LET old(j) == IF j <= Len(search.nodes)
                          THEN search.nodes[j]
                          ELSE [search'.nodes[j] EXCEPT !.visits = 0, !.wins = 0]
                path == SearchPathToRoot(search'.nodes, leaf)
                result == search'.nodes[leaf].wins - old(leaf).wins
                side(j) == search'.nodes[j].game_state.current_player
            IN  /\ 1 \in path
                /\ leaf > Len(search.nodes) \/ Len(search'.nodes) = Len(search.nodes)
                /\ \A j \in path \ {1} :
                      side(j) = -side(search'.nodes[j].parent)
                /\ \A j \in 1..Len(search'.nodes) :
                      IF j \in path
                      THEN /\ search'.nodes[j].visits = old(j).visits + 1
                           /\ search'.nodes[j].wins =
                                 old(j).wins + (IF side(j) = side(leaf)
                                                THEN result ELSE -result)
                      ELSE /\ search'.nodes[j].visits = old(j).visits
                           /\ search'.nodes[j].wins = old(j).wins
      ]_vars


(***************************************************************************)
(* Properties of MCTS.best_move                                            *)
(***************************************************************************)
\* the returned move is the move of a root child that no other root child
\* exceeds in num_visits
MostVisitedReturned ==
    \E c \in Range(puct.nodes[1].children) :
        /\ puct.nodes[c].prev_move = puct.move
        /\ \A d \in Range(puct.nodes[1].children) :
              puct.nodes[d].num_visits <= puct.nodes[c].num_visits

\* C11 as stated: whenever best_move returns, the move it returns is the
\* move of the root child with the greatest visit count.
C11_BestMoveMostVisited ==
    puct.pc = "returned" => MostVisitedReturned

\* C11, amended: whenever best_move returns without having taken the
\* random-move branch (always so with random = 0.0), the move it returns is
\* the move of a root child with the greatest visit count: no other root
\* child has strictly more visits.
C11_BestMoveMostVisitedUnlessRandom ==
    (puct.pc = "returned" /\ ~puct.random_branch) => MostVisitedReturned

\* best_move has returned the move of the most visited child of a root whose
\* children differ in their visit counts
C11_Witness ==
    /\ puct.pc = "returned"
    /\ ~puct.random_branch
    /\ MostVisitedReturned
    /\ \E c, d \in Range(puct.nodes[1].children) :
          puct.nodes[c].num_visits < puct.nodes[d].num_visits


(***************************************************************************)
(* Properties of selection                                                 *)
(***************************************************************************)
Siblings(nodes, node) ==
    IF nodes[node].parent = 0 THEN {}
    ELSE Range(nodes[nodes[node].parent].children) \ {node}

\* C12: every child that selection steps to is unvisited whenever one of its
\* siblings is unvisited (an unvisited child scores +infinity and goes
\* before every visited sibling); and in every step of a search, a node
\* whose num_visits grows beyond 1 has no sibling with zero visits.
C12_UnvisitedChildFirst ==
    [][/\ (puct.pc = "selection" /\ puct'.pc = "expansion")
            => \A j \in PathToRoot(puct.nodes, puct'.leaf) :
                  (\E d \in Siblings(puct.nodes, j) :
                       puct.nodes[d].num_visits = 0)
                     => puct.nodes[j].num_visits = 0
       /\ (puct.pc \in {"selection", "expansion", "rollout", "backpropagation"})
            => \A j \in 1..Len(puct.nodes) :
                  (/\ puct.nodes[j].num_visits >= 1
                   /\ puct'.nodes[j].num_visits > puct.nodes[j].num_visits)
                     => \A d \in Siblings(puct'.nodes, j) :
                           puct'.nodes[d].num_visits >= 1
      ]_vars

\* a child was visited a second time after all its siblings had their first
\* visit; one of the siblings was not visited when it was built, so that it
\* got its first visit through selection
C12_Witness ==
    /\ puct.pc \in {"selection", "done"}
    /\ \E j \in 2..Len(puct.nodes) :
          /\ puct.nodes[j].num_visits >= 2
          /\ Siblings(puct.nodes, j) # {}
          /\ \A d \in Siblings(puct.nodes, j) : puct.nodes[d].num_visits >= 1
          /\ \E d \in Siblings(puct.nodes, j) :
                /\ puct.nodes[d].num_visits = 1
                /\ puct.nodes[d].children # <<>>
                /\ d + 1 \in Siblings(puct.nodes, j) \cup {j}


\* sum of num_visits over a set of nodes
RECURSIVE VisitSum(_, _)
VisitSum(nodes, set) ==
    IF set = {} THEN 0
    ELSE LET k == CHOOSE x \in set : TRUE
         IN  nodes[k].num_visits + VisitSum(nodes, set \ {k})

\* sum of the fractions p[c] over a set of cells, in units of 1/den
RECURSIVE PolicySum(_, _, _)
PolicySum(p, cells, den) ==
    IF cells = {} THEN 0
    ELSE LET c == CHOOSE x \in cells : TRUE
         IN  (p[c][1] * den) \div p[c][2] + PolicySum(p, cells \ {c}, den)

\* the returned policy is visits(child) / (sum of the visits of the root
\* children) at the move of every root child and 0 at every other cell, and
\* its entries sum to 1 when a root child has been visited
PolicyIsVisitShare ==
    LET children == Range(puct.nodes[1].children)
        total == VisitSum(puct.nodes, children)
    IN  /\ DOMAIN puct.policy = CellSet(puct.cfg.BOARD_SIZE)
        /\ \A c \in CellSet(puct.cfg.BOARD_SIZE) :
              /\ puct.policy[c][2] > 0
              /\ IF \E k \in children : puct.nodes[k].prev_move = c
                 THEN \A k \in children :
                         puct.nodes[k].prev_move = c
                            => puct.policy[c][1] * total
                                  = puct.nodes[k].num_visits * puct.policy[c][2]
                 ELSE puct.policy[c][1] = 0
        /\ total > 0
              => /\ \A c \in CellSet(puct.cfg.BOARD_SIZE) :
                       (puct.policy[c][1] * total) % puct.policy[c][2] = 0
                 /\ PolicySum(puct.policy, CellSet(puct.cfg.BOARD_SIZE), total)
                       = total

\* C13 as stated: the policy best_move returns is the visit share of every
\* root child at its move and 0 elsewhere, and sums to 1 whenever a root
\* child has been visited.
C13_PolicyIsVisitShare ==
    puct.pc = "returned" => PolicyIsVisitShare

\* C13, amended: the same, for every return of best_move that did not take
\* the random-move branch (the random-move branch returns the all-zero
\* policy).
C13_PolicyIsVisitShareUnlessRandom ==
    (puct.pc = "returned" /\ ~puct.random_branch) => PolicyIsVisitShare

\* a policy returned for a root with children of different visit counts and
\* with cells that are no child's move
C13_Witness ==
    /\ puct.pc = "returned"
    /\ ~puct.random_branch
    /\ PolicyIsVisitShare
    /\ \E c, d \in Range(puct.nodes[1].children) :
          0 < puct.nodes[c].num_visits
             /\ puct.nodes[c].num_visits < puct.nodes[d].num_visits
    /\ \E c \in CellSet(puct.cfg.BOARD_SIZE) : puct.policy[c][1] = 0


MaxApplied == 4          \* stones placed in the session, the opening included
MaxBlockingCalls == 2    \* calls of _is_blocking_win in one search

\* new_game: player 1's stone is placed at the centre
ControllerInit ==
    /\ \E human_player_id \in {1, -1} :
          controller = [human_player_id |-> human_player_id,
                        current_player  |-> -1,
                        applied         |-> <<1>>,
                        ai_thinking     |-> FALSE,
                        ai              |-> "idle",
                        original_player |-> 0,
                        blocking_calls  |-> 0,
                        human           |-> "",
                        human_during_ai |-> FALSE]
    /\ gs = NotUsed /\ saved = NotUsed
    /\ pente = NotUsed /\ psaved = NotUsed /\ pphase = NotUsed
    /\ sgame = NotUsed /\ sgame0 = NotUsed /\ search = NotUsed
    /\ puct = NotUsed /\ gcall = NotUsed /\ bitboard = NotUsed
    /\ rings = NotUsed /\ movegen = NotUsed /\ ringcache = NotUsed
    /\ humanplayer = NotUsed /\ stored = NotUsed /\ dbwriter = NotUsed

is_human_turn(c) == c.current_player = c.human_player_id

\* session.make_move -> game.make_move: the stone is current_player's
Session_make_move(c) ==
    [c EXCEPT !.applied = Append(@, c.current_player),
              !.current_player = -@]

\* make_human_move, the whole handler (it holds the controller lock)
make_human_move(c) ==
    IF ~is_human_turn(c)
    THEN [c EXCEPT !.human = "not human player's turn"]
    ELSE [Session_make_move(c) EXCEPT
             !.human = "applied",
             !.human_during_ai = @ \/ c.ai \in {"started", "thinking", "blocking"}]

MakeHumanMove ==
    /\ Len(controller.applied) < MaxApplied
    /\ controller' = make_human_move(controller)
    /\ UNCHANGED <<gs, saved, pente, psaved, pphase, sgame, sgame0, search, puct, gcall,
                   bitboard, rings, movegen, ringcache, humanplayer, stored, dbwriter>>

\* make_ai_move up to ai_thread.start(); a request on the human's turn raises
MakeAiMove ==
    /\ controller.ai = "idle"
    /\ Len(controller.applied) < MaxApplied
    /\ ~is_human_turn(controller)
    /\ controller' = [controller EXCEPT !.ai = "started", !.blocking_calls = 0]
    /\ UNCHANGED <<gs, saved, pente, psaved, pphase, sgame, sgame0, search, puct, gcall,
                   bitboard, rings, movegen, ringcache, humanplayer, stored, dbwriter>>

\* get_ai_move: ai_thinking is set, MCTSPlayer.get_move checks the turn and
\* raises when it is not the AI's (the thread then ends without a move)
AiGetMove ==
    /\ controller.ai = "started"
    /\ controller' =
          IF controller.current_player # -controller.human_player_id
          THEN [controller EXCEPT !.ai = "idle"]
          ELSE [controller EXCEPT !.ai = "thinking", !.ai_thinking = TRUE]
    /\ UNCHANGED <<gs, saved, pente, psaved, pphase, sgame, sgame0, search, puct, gcall,
                   bitboard, rings, movegen, ringcache, humanplayer, stored, dbwriter>>

\* _is_blocking_win, up to the call of _is_winning_move
AiBlockingWinEnter ==
    /\ controller.ai = "thinking"
    /\ controller.blocking_calls < MaxBlockingCalls
    /\ controller' = [controller EXCEPT
                         !.ai = "blocking",
                         !.original_player = controller.current_player,
                         !.current_player = -controller.current_player,
                         !.blocking_calls = @ + 1]
    /\ UNCHANGED <<gs, saved, pente, psaved, pphase, sgame, sgame0, search, puct, gcall,
                   bitboard, rings, movegen, ringcache, humanplayer, stored, dbwriter>>

\* _is_blocking_win, from the return of _is_winning_move on
AiBlockingWinExit ==
    /\ controller.ai = "blocking"
    /\ controller' = [controller EXCEPT
                         !.ai = "thinking",
                         !.current_player = controller.original_player]
    /\ UNCHANGED <<gs, saved, pente, psaved, pphase, sgame, sgame0, search, puct, gcall,
                   bitboard, rings, movegen, ringcache, humanplayer, stored, dbwriter>>

\* search returns, get_ai_move clears ai_thinking, and session.make_move
\* places the stone; game.make_move raises when the cell was taken meanwhile
AiMakeMove ==
    /\ controller.ai = "thinking"
    /\ \E occupied \in {FALSE} \cup {controller.human_during_ai} :
          controller' =
             IF occupied
             THEN [controller EXCEPT !.ai = "idle", !.ai_thinking = FALSE]
             ELSE [Session_make_move(controller) EXCEPT
                      !.ai = "idle", !.ai_thinking = FALSE]
    /\ UNCHANGED <<gs, saved, pente, psaved, pphase, sgame, sgame0, search, puct, gcall,
                   bitboard, rings, movegen, ringcache, humanplayer, stored, dbwriter>>

ControllerNext ==
    \/ MakeHumanMove
    \/ MakeAiMove
    \/ AiGetMove
    \/ AiBlockingWinEnter
    \/ AiBlockingWinExit
    \/ AiMakeMove

SpecController == ControllerInit /\ [][ControllerNext]_vars

\* C35: no human move is applied to a session while its AI move is being
\* computed (such a request is refused as not the human's turn), so the
\* stones placed in the session alternate between the two players.
C35_NoHumanMoveDuringAiMove ==
    /\ ~controller.human_during_ai
    /\ \A i \in 1..(Len(controller.applied) - 1) :
          controller.applied[i] # controller.applied[i + 1]

(***************************************************************************)
(* HumanPlayer (src/v2/src/players/human_player.py): one thread calls      *)
(* get_move, another calls submit_move up to MaxSubmits times.  Neither    *)
(* method takes a lock, so the threads interleave statement by statement;  *)
(* get and submit are the statements the two threads are about to run.     *)
(* A move is a number, 0 stands for None.                                  *)
(***************************************************************************)
MaxSubmits == 2

SubmittedMoves == {1, 2}

\* what returned holds when get_move raised ValueError('No move was submitted')
ValueError == -1

HumanPlayerInit ==
    /\ humanplayer = [pending_move     |-> 0,
                      move_event       |-> FALSE,
                      waiting_for_move |-> FALSE,
                      get              |-> "idle",
                      move             |-> 0,
                      returned         |-> 0,
                      submit           |-> "idle",
                      submit_arg       |-> 0,
                      submits          |-> 0,
                      accepted         |-> {},
                      refused          |-> FALSE]
    /\ gs = NotUsed /\ saved = NotUsed
    /\ pente = NotUsed /\ psaved = NotUsed /\ pphase = NotUsed
    /\ sgame = NotUsed /\ sgame0 = NotUsed /\ search = NotUsed
    /\ puct = NotUsed /\ gcall = NotUsed /\ bitboard = NotUsed
    /\ rings = NotUsed /\ movegen = NotUsed /\ ringcache = NotUsed
    /\ controller = NotUsed /\ stored = NotUsed /\ dbwriter = NotUsed

\* get_move: self._move_event.clear()
GetMoveClear ==
    /\ humanplayer.get = "idle"
    /\ humanplayer' = [humanplayer EXCEPT !.move_event = FALSE, !.get = "set waiting"]
    /\ UNCHANGED <<gs, saved, pente, psaved, pphase, sgame, sgame0, search, puct, gcall,
                   bitboard, rings, movegen, ringcache, controller, stored, dbwriter>>

\* get_move: self._waiting_for_move = True
GetMoveSetWaiting ==
    /\ humanplayer.get = "set waiting"
    /\ humanplayer' = [humanplayer EXCEPT !.waiting_for_move = TRUE, !.get = "reset pending"]
    /\ UNCHANGED <<gs, saved, pente, psaved, pphase, sgame, sgame0, search, puct, gcall,
                   bitboard, rings, movegen, ringcache, controller, stored, dbwriter>>

\* get_move: self._pending_move = None
GetMoveResetPending ==
    /\ humanplayer.get = "reset pending"
    /\ humanplayer' = [humanplayer EXCEPT !.pending_move = 0, !.get = "wait"]
    /\ UNCHANGED <<gs, saved, pente, psaved, pphase, sgame, sgame0, search, puct, gcall,
                   bitboard, rings, movegen, ringcache, controller, stored, dbwriter>>

\* get_move: self._move_event.wait() returns once the event is set
GetMoveWait ==
    /\ humanplayer.get = "wait" /\ humanplayer.move_event
    /\ humanplayer' = [humanplayer EXCEPT !.get = "clear waiting"]
    /\ UNCHANGED <<gs, saved, pente, psaved, pphase, sgame, sgame0, search, puct, gcall,
                   bitboard, rings, movegen, ringcache, controller, stored, dbwriter>>

\* get_move: self._waiting_for_move = False
GetMoveClearWaiting ==
    /\ humanplayer.get = "clear waiting"
    /\ humanplayer' = [humanplayer EXCEPT !.waiting_for_move = FALSE, !.get = "read pending"]
    /\ UNCHANGED <<gs, saved, pente, psaved, pphase, sgame, sgame0, search, puct, gcall,
                   bitboard, rings, movegen, ringcache, controller, stored, dbwriter>>

\* get_move: move = self._pending_move
GetMoveReadPending ==
    /\ humanplayer.get = "read pending"
    /\ humanplayer' = [humanplayer EXCEPT !.move = humanplayer.pending_move, !.get = "return"]
    /\ UNCHANGED <<gs, saved, pente, psaved, pphase, sgame, sgame0, search, puct, gcall,
                   bitboard, rings, movegen, ringcache, controller, stored, dbwriter>>

\* get_move: self._pending_move = None, then raise ValueError (move is None) or return move
GetMoveReturn ==
    /\ humanplayer.get = "return"
    /\ humanplayer' = [humanplayer EXCEPT !.pending_move = 0,
                                        !.returned = IF humanplayer.move = 0
                                                     THEN ValueError
                                                     ELSE humanplayer.move,
                                        !.get = "done"]
    /\ UNCHANGED <<gs, saved, pente, psaved, pphase, sgame, sgame0, search, puct, gcall,
                   bitboard, rings, movegen, ringcache, controller, stored, dbwriter>>

\* submit_move(move): if not self._waiting_for_move: return False
SubmitMoveTest ==
    /\ humanplayer.submit = "idle"
    /\ humanplayer.submits < MaxSubmits
    /\ \E move \in SubmittedMoves :
          humanplayer' =
             IF ~humanplayer.waiting_for_move
             THEN [humanplayer EXCEPT !.submits = @ + 1, !.refused = TRUE]
             ELSE [humanplayer EXCEPT !.submits = @ + 1, !.submit_arg = move,
                                      !.submit = "set pending"]
    /\ UNCHANGED <<gs, saved, pente, psaved, pphase, sgame, sgame0, search, puct, gcall,
                   bitboard, rings, movegen, ringcache, controller, stored, dbwriter>>

\* submit_move: self._pending_move = move
SubmitMoveSetPending ==
    /\ humanplayer.submit = "set pending"
    /\ humanplayer' = [humanplayer EXCEPT !.pending_move = humanplayer.submit_arg, !.submit = "set event"]
    /\ UNCHANGED <<gs, saved, pente, psaved, pphase, sgame, sgame0, search, puct, gcall,
                   bitboard, rings, movegen, ringcache, controller, stored, dbwriter>>

\* submit_move: self._move_event.set(); return True
SubmitMoveSetEvent ==
    /\ humanplayer.submit = "set event"
    /\ humanplayer' = [humanplayer EXCEPT !.move_event = TRUE,
                                        !.accepted = @ \cup {humanplayer.submit_arg},
                                        !.submit = "idle"]
    /\ UNCHANGED <<gs, saved, pente, psaved, pphase, sgame, sgame0, search, puct, gcall,
                   bitboard, rings, movegen, ringcache, controller, stored, dbwriter>>

HumanPlayerNext ==
    \/ GetMoveClear
    \/ GetMoveSetWaiting
    \/ GetMoveResetPending
    \/ GetMoveWait
    \/ GetMoveClearWaiting
    \/ GetMoveReadPending
    \/ GetMoveReturn
    \/ SubmitMoveTest
    \/ SubmitMoveSetPending
    \/ SubmitMoveSetEvent

SpecHumanPlayer == HumanPlayerInit /\ [][HumanPlayerNext]_vars

\* C36: when submit_move(m) returned True while a get_move call was in
\* progress on another thread, that call returns exactly m.  (A submit_move
\* that finds nobody waiting returns False and changes nothing; every call
\* that returned True here was made during the get_move call.)
C36_SubmittedMoveReturned ==
    humanplayer.get = "done"
        => \A m \in humanplayer.accepted : humanplayer.returned = m

(***************************************************************************)
(* store_moves (src/generate.py), the loop worker_process (src/parallel.py)*)
(* repeats: the positions of a finished self-play game are stored from the *)
(* last one back.  A position is kept as the one thing the loop looks at,  *)
(* whether its policy is all zero (a random move); i counts the positions  *)
(* taken from the end, and a record is [i, result].                        *)
(***************************************************************************)
MaxGameLen == 4

GameResults == {1, -1}

RECURSIVE PolicyZeroLists(_)
PolicyZeroLists(n) ==
    IF n = 0 THEN {<<>>}
    ELSE {Append(l, z) : l \in PolicyZeroLists(n - 1), z \in BOOLEAN}

StoreInit ==
    /\ \E n \in 1..MaxGameLen : \E moves \in PolicyZeroLists(n) :
       \E result \in GameResults :
          stored = [moves   |-> moves,
                    game    |-> result,
                    i       |-> 0,
                    result  |-> result,
                    records |-> <<>>]
    /\ gs = NotUsed /\ saved = NotUsed
    /\ pente = NotUsed /\ psaved = NotUsed /\ pphase = NotUsed
    /\ sgame = NotUsed /\ sgame0 = NotUsed /\ search = NotUsed
    /\ puct = NotUsed /\ gcall = NotUsed /\ bitboard = NotUsed
    /\ rings = NotUsed /\ movegen = NotUsed /\ ringcache = NotUsed
    /\ controller = NotUsed /\ humanplayer = NotUsed /\ dbwriter = NotUsed

\* one pass of the for loop over enumerate(reversed(moves))
store_moves_step(st) ==
    LET policy_zero == st.moves[Len(st.moves) - st.i]
        result      == IF st.i % 2 = 0 THEN st.result ELSE -st.result
    IN  IF policy_zero
        THEN [st EXCEPT !.i = @ + 1]
        ELSE [st EXCEPT !.i = @ + 1,
                        !.result = result,
                        !.records = Append(@, [i |-> st.i, result |-> result])]

StoreMovesStep ==
    /\ stored.i < Len(stored.moves)
    /\ stored' = store_moves_step(stored)
    /\ UNCHANGED <<gs, saved, pente, psaved, pphase, sgame, sgame0, search, puct, gcall,
                   bitboard, rings, movegen, ringcache, controller, humanplayer, dbwriter>>

StoreNext == StoreMovesStep

SpecStore == StoreInit /\ [][StoreNext]_vars

\* (-1)^i
Alternate(i) == IF i % 2 = 0 THEN 1 ELSE -1

\* C38: the record of the position i plies before the end of the game gets
\* result * (-1)^i: the sign alternates on every ply, and the positions with
\* the same side to move get the same sign.
C38_ResultAlternates ==
    \A k \in 1..Len(stored.records) :
        stored.records[k].result = stored.game * Alternate(stored.records[k].i)

(***************************************************************************)
(* run_parallel_demo (src/parallel.py): NumWorkers worker processes put    *)
(* the records of one game each on the queue, at most                      *)
(* NumMessagesPerWorker of them, and one database_writer process takes     *)
(* them off until it has counted total_messages.  The records are not told *)
(* apart: the queue and the batch are kept as their lengths.               *)
(***************************************************************************)
NumWorkers == 2               \* allocated_cpus - 1 in the code
NumMessagesPerWorker == 3     \* num_messages_per_worker, 10 in the code
BatchSize == 10               \* the batch length that forces a write

WriterInit ==
    /\ dbwriter = [queue            |-> 0,
                   pushed           |-> [w \in 1..NumWorkers |-> 0],
                   finished         |-> [w \in 1..NumWorkers |-> FALSE],
                   total_messages   |-> NumWorkers * NumMessagesPerWorker,
                   batch            |-> 0,
                   messages_written |-> 0,
                   writer           |-> "while"]
    /\ gs = NotUsed /\ saved = NotUsed
    /\ pente = NotUsed /\ psaved = NotUsed /\ pphase = NotUsed
    /\ sgame = NotUsed /\ sgame0 = NotUsed /\ search = NotUsed
    /\ puct = NotUsed /\ gcall = NotUsed /\ bitboard = NotUsed
    /\ rings = NotUsed /\ movegen = NotUsed /\ ringcache = NotUsed
    /\ controller = NotUsed /\ humanplayer = NotUsed /\ stored = NotUsed

\* worker_process: one pass of the for loop that puts a record; the worker
\* returns when record_count reaches num_messages
WorkerPut ==
    /\ \E w \in 1..NumWorkers :
          /\ ~dbwriter.finished[w]
          /\ dbwriter' = [dbwriter EXCEPT
                             !.queue = @ + 1,
                             !.pushed = [@ EXCEPT ![w] = @ + 1],
                             !.finished = [@ EXCEPT ![w] =
                                 dbwriter.pushed[w] + 1 = NumMessagesPerWorker]]
    /\ UNCHANGED <<gs, saved, pente, psaved, pphase, sgame, sgame0, search, puct, gcall,
                   bitboard, rings, movegen, ringcache, controller, humanplayer, stored>>

\* worker_process: the for loop runs out of positions (the game has fewer
\* positions with a policy than num_messages) and the worker returns
WorkerReturn ==
    /\ \E w \in 1..NumWorkers :
          /\ ~dbwriter.finished[w]
          /\ dbwriter' = [dbwriter EXCEPT !.finished = [@ EXCEPT ![w] = TRUE]]
    /\ UNCHANGED <<gs, saved, pente, psaved, pphase, sgame, sgame0, search, puct, gcall,
                   bitboard, rings, movegen, ringcache, controller, humanplayer, stored>>

\* database_writer: queue.get returns a message, rest of the loop body
WriterGet ==
    /\ dbwriter.writer = "get"
    /\ dbwriter.queue > 0
    /\ dbwriter' =
          IF dbwriter.batch + 1 >= BatchSize \/ dbwriter.queue - 1 = 0
          THEN [dbwriter EXCEPT !.queue = @ - 1,
                                !.messages_written = @ + dbwriter.batch + 1,
                                !.batch = 0,
                                !.writer = "while"]
          ELSE [dbwriter EXCEPT !.queue = @ - 1, !.batch = @ + 1,
                                !.writer = "while"]
    /\ UNCHANGED <<gs, saved, pente, psaved, pphase, sgame, sgame0, search, puct, gcall,
                   bitboard, rings, movegen, ringcache, controller, humanplayer, stored>>

\* database_writer: queue.get times out, the except branch
WriterTimeout ==
    /\ dbwriter.writer = "get"
    /\ dbwriter.queue = 0
    /\ dbwriter' = [dbwriter EXCEPT !.messages_written = @ + dbwriter.batch,
                                    !.batch = 0,
                                    !.writer = "while"]
    /\ UNCHANGED <<gs, saved, pente, psaved, pphase, sgame, sgame0, search, puct, gcall,
                   bitboard, rings, movegen, ringcache, controller, humanplayer, stored>>

\* database_writer: the while condition holds, queue.get is called
WriterEnter ==
    /\ dbwriter.writer = "while"
    /\ dbwriter.messages_written < dbwriter.total_messages
    /\ dbwriter' = [dbwriter EXCEPT !.writer = "get"]
    /\ UNCHANGED <<gs, saved, pente, psaved, pphase, sgame, sgame0, search, puct, gcall,
                   bitboard, rings, movegen, ringcache, controller, humanplayer, stored>>

\* database_writer: the while condition fails, conn.close()
WriterExit ==
    /\ dbwriter.writer = "while"
    /\ dbwriter.messages_written >= dbwriter.total_messages
    /\ dbwriter' = [dbwriter EXCEPT !.writer = "done"]
    /\ UNCHANGED <<gs, saved, pente, psaved, pphase, sgame, sgame0, search, puct, gcall,
                   bitboard, rings, movegen, ringcache, controller, humanplayer, stored>>

WriterNext ==
    \/ WorkerPut
    \/ WorkerReturn
    \/ WriterEnter
    \/ WriterGet
    \/ WriterTimeout
    \/ WriterExit

SpecWriter == WriterInit /\ [][WriterNext]_vars

\* every process that can run does run
SpecWriterLive ==
    /\ SpecWriter
    /\ WF_vars(WorkerPut \/ WorkerReturn)
    /\ WF_vars(WriterEnter)
    /\ WF_vars(WriterGet)
    /\ WF_vars(WriterTimeout)
    /\ WF_vars(WriterExit)

\* C39: once every worker has finished and the queue is drained the writer
\* loop exits, also when the workers produced fewer than total_messages.
C39_WriterTerminates ==
    ((\A w \in 1..NumWorkers : dbwriter.finished[w]) /\ dbwriter.queue = 0)
        ~> dbwriter.writer = "done"

====
